---- MODULE Spec2Model ----
(***************************************************************************)
(* The kernel/template dataflow core of seapopym (core/kernel.py,          *)
(* core/template.py): a Kernel is an ordered list of KernelUnit instances; *)
(* Kernel.run threads a State (an xarray Dataset) through the units,       *)
(* merging each unit's partial result and dropping the freed variables.    *)
(*                                                                         *)
(* A Dataset is a record [vars, coords]: vars maps a field name to a       *)
(* field [by, kind, attrs], coords is the set of coordinate names.         *)
(*   by    - who wrote the field: 0 the caller, j the j-th unit;           *)
(*   kind  - "numpy" (eager data), "dask" (chunked data), "empty" (a       *)
(*           da.empty placeholder), "deferred" (a map_blocks result);      *)
(*   attrs - the metadata, a function from attribute keys to values.       *)
(* coords maps a coordinate name to its size. None (no state) is a record  *)
(* with a field `none`.                                                    *)
(***************************************************************************)
EXTENDS Integers, Sequences, FiniteSets, TLC

VARIABLES
    kernel_unit,   \* Kernel.kernel_unit: the list of KernelUnit instances
    parallel,      \* Kernel.parallel
    chunk,         \* the chunk argument of Kernel.__init__
    input,         \* the State object the caller passed in (its contents now)
    input0,        \* the contents of that object when the caller passed it in
    state,         \* the local variable `state` of Kernel.run
    pc,            \* where Kernel.run is: "idle", "run", "done", "failed"
    i,             \* number of units whose loop iteration has completed
    returned,      \* what Kernel.run returned: [some, ds]
    given,         \* the KernelUnit classes Kernel.__init__ was given, in order
    received,      \* received[j]: the state the j-th KernelUnit.run call was given
    partials,      \* partials[j]: what that call did: [raised, ds]
    log,           \* every call made so far: [op, unit, caller]
    tres,          \* what Kernel.template returned: [called, raised, ds]
    previous,      \* an earlier, finished Kernel.run call: [called, state, pc, returned]
    template_unit, \* the TemplateUnit objects constructed (Template.template_unit)
    rejected,      \* the TemplateUnit constructions that raised: [dims, error]
    tstate,        \* the state handed to generate (a Dataset or None)
    ugen,          \* the TemplateUnit.generate calls made: [unit, res]
    tgen,          \* what the Template.generate calls made returned
    processor,     \* a ScoreProcessor: [kind, preprocess]
    ostate,        \* the State a ScoreProcessor is given: [day_layer, night_layer, biomass, units]
    observation,   \* the observation it is given: [observation_type, units, value]
    score,         \* what process did: [called, raised, error, steps, positions, compared]
    spatial,       \* a SpatialObservation construction: [status, coords, error]
    forcing,       \* the state given to biomass(): [recruited, mortality, initial, timestep]
    biomass_out,   \* what biomass() returned: [called, biomass]
    bh_in,         \* the arguments of beverton_holt: [biomass, alpha], two fractions
    bh_out,        \* what beverton_holt returned: [called, value]
    strategy,      \* the evaluation strategy of the genetic algorithm
    budget,        \* its generation budget
    phase,         \* the phase of its loop
    generation,    \* the generations completed
    population,    \* its Population: a sequence of Individuals [genes, fitness]
    selected,      \* the Individuals selected in the current generation
    offspring,     \* the offspring of the current generation
    submitted,     \* an evaluation batch is in flight
    pending,       \* the positions of the batch whose worker has not completed
    completed,     \* the completed evaluations, [position, outcome], as they complete
    fitnesses,     \* the fitness sequence the strategy returned last: [some, values]
    logbook        \* the Logbook: a sequence of records

\* The variables of a Kernel and its caller.
kvars == <<kernel_unit, parallel, chunk, given, input, input0, state, pc, i,
           returned, received, partials, log, tres, previous>>

\* The variables of a Template and its caller.
tvars == <<template_unit, rejected, tstate, ugen, tgen>>

\* The variables of a ScoreProcessor, of an observation and their caller.
ovars == <<processor, ostate, observation, score, spatial>>

\* The variables of the biomass function and its caller.
bvars == <<forcing, biomass_out>>

\* The variables of beverton_holt and its caller.
hvars == <<bh_in, bh_out>>

\* The variables of the genetic algorithm.
gvars == <<strategy, budget, phase, generation, population, selected, offspring,
           submitted, pending, completed, fitnesses, logbook>>

vars == <<kvars, tvars, ovars, bvars, hvars, gvars>>

\* Longest unit list a Kernel is constructed with.
MaxUnits == 2

-----------------------------------------------------------------------------
(* Datasets *)

EmptyDataset == [vars |-> <<>>, coords |-> <<>>]

\* state is None
None == [vars |-> <<>>, coords |-> <<>>, none |-> TRUE]

IsNone(st) == "none" \in DOMAIN st

\* The union of two mappings; on a common key the first one's value.
Union(first, second) ==
    [n \in DOMAIN first \cup DOMAIN second |->
        IF n \in DOMAIN first THEN first[n] ELSE second[n]]

Names(ds) == DOMAIN ds.vars

\* dask.is_dask_collection(ds): some variable is backed by a dask array.
IsDask(ds) == \E n \in Names(ds) : ds.vars[n].kind # "numpy"

\* xr.merge([first, second], compat="override"): the union of the fields; on a
\* name collision the variable is picked from the first dataset.
MergeSecondWins(first, second) ==
    [vars   |-> [n \in Names(first) \cup Names(second) |->
                    IF n \in Names(second) THEN second.vars[n] ELSE first.vars[n]],
     coords |-> Union(first.coords, second.coords)]

MergeOverride(first, second) ==
    [vars   |-> [n \in Names(first) \cup Names(second) |->
                    IF n \in Names(first) THEN first.vars[n] ELSE second.vars[n]],
     coords |-> Union(first.coords, second.coords)]

\* Dataset.drop_vars(var): a new dataset without the variable; a name that is
\* not in the dataset raises (errors="raise" is the default).
drop_vars(ds, var) ==
    IF var \in Names(ds)
    THEN [raised |-> FALSE, ds |-> [ds EXCEPT !.vars = [n \in Names(ds) \ {var} |-> ds.vars[n]]]]
    ELSE [raised |-> TRUE, ds |-> ds]

\* DataArray.assign_attrs(new): a copy whose attrs are UPDATED with new
\* (dict.update: keys of new are set, the other keys are kept).
AssignAttrsReplace(attrs, new) == new

assign_attrs(attrs, new) ==
    [k \in DOMAIN attrs \cup DOMAIN new |-> IF k \in DOMAIN new THEN new[k] ELSE attrs[k]]

\* coordinate_authority.ensure_coordinate_integrity(ds): validates the
\* coordinates and returns the dataset; the data variables are not touched.
ensure_coordinate_integrity(ds) == ds

-----------------------------------------------------------------------------
(* Templates *)

\* CoordinatesLabels.ordered(): the canonical order of the axes.
Ordered == <<"functional_group", "T", "Y", "X", "Z", "cohort">>

\* What a caller puts in dims: a CoordinatesLabels member, a string, an
\* xr.DataArray (an explicit coordinate: its name and its size), or an object
\* of another type (an int, say).
Label(n) == [kind |-> "label", name |-> n, size |-> 0]
Str(n) == [kind |-> "str", name |-> n, size |-> 0]
Array(n, s) == [kind |-> "array", name |-> n, size |-> s]
Other == [kind |-> "other", name |-> "", size |-> 0]

\* chunks: None, or a dict from a name to a chunk size.
NoChunks == [none |-> TRUE, map |-> <<>>]
Chunks(m) == [none |-> FALSE, map |-> m]

\* TemplateUnit classes (template_unit_factory): name, attrs, dims.
XTemplate == [name |-> "x", attrs |-> [units |-> "kg"], dims |-> <<Label("T")>>]
YTemplate == [name |-> "y", attrs |-> [units |-> "m", history |-> "declared"],
              dims |-> <<Label("T"), Label("Y")>>]

Range(s) == {s[k] : k \in DOMAIN s}

\* isinstance(dim, (CoordinatesLabels, str))
IsName(dim) == dim.kind \in {"label", "str"}

\* TemplateUnit._validate_dims: every element of dims is a CoordinatesLabels
\* member, a str or an xr.DataArray, else TypeError.
ValidateAnyDims(dims) == TRUE

_validate_dims(dims) == \A k \in DOMAIN dims : dims[k].kind \in {"label", "str", "array"}

\* TemplateUnit(name=, attrs=, dims=, chunks=): [raised, error, unit]; a raise of a
\* validator leaves no object.
TemplateUnitInit(name, attrs, dims, chunks) ==
    [raised |-> ~_validate_dims(dims),
     error  |-> IF _validate_dims(dims) THEN "" ELSE "TypeError",
     unit   |-> [name |-> name, attrs |-> attrs, dims |-> dims, chunks |-> chunks]]

\* CustomTemplateUnit.__init__(chunk): an instance of a class of the factory.
CustomTemplateUnit(tuc, ch) == TemplateUnitInit(tuc.name, tuc.attrs, tuc.dims, ch).unit

\* CoordinatesLabels.order_data: transpose(*ordered(), missing_dims="ignore"):
\* the labels that are not dimensions of the data are ignored, and what is
\* left must be a permutation of all the dimensions of the data.
order_data(names) ==
    [raised |-> ~(Range(names) \subseteq Range(Ordered)),
     dims   |-> SelectSeq(Ordered, LAMBDA n : n \in Range(names))]

NoPlaceholder ==
    [raised |-> TRUE, field |-> [by |-> 0, kind |-> "empty", attrs |-> <<>>],
     coords |-> <<>>, dims |-> <<>>, shape |-> <<>>, chunks |-> <<>>]

\* The first loop of generate: a name in dims needs a state and must be among
\* state.coords, else ValueError.
Unresolved(tu, st) ==
    \E k \in DOMAIN tu.dims :
        IsName(tu.dims[k]) /\ (IsNone(st) \/ tu.dims[k].name \notin DOMAIN st.coords)

\* coords = [dim if isinstance(dim, xr.DataArray) else state[dim] ...]:
\* coords_name, and coords_size as a mapping from the name.
CoordsName(tu) == [k \in DOMAIN tu.dims |-> tu.dims[k].name]

CoordsSize(tu, st) ==
    [n \in Range(CoordsName(tu)) |->
        LET d == tu.dims[CHOOSE k \in DOMAIN tu.dims : tu.dims[k].name = n]
        IN IF IsName(d) THEN st.coords[n] ELSE d.size]

\* {state[k].name: v for k, v in self.chunks.items()}: state[k] raises for a
\* key that is neither a variable nor a coordinate of the state.
BadChunks(tu, st) ==
    /\ ~tu.chunks.none
    /\ \E c \in DOMAIN tu.chunks.map : IsNone(st) \/ c \notin (Names(st) \cup DOMAIN st.coords)

\* ordered_chunks: the chunk size of each coordinate that has one.
OrderedChunks(tu) ==
    [n \in Range(CoordsName(tu)) \cap (IF tu.chunks.none THEN {} ELSE DOMAIN tu.chunks.map) |->
        tu.chunks.map[n]]

\* The validated one-variable dataset, and the DataArray taken back from it.
Placeholder(name, ds, dims, chunks) ==
    [raised |-> FALSE,
     field  |-> ds.vars[name],
     coords |-> ds.coords,
     dims   |-> dims,
     shape  |-> [k \in DOMAIN dims |-> ds.coords[dims[k]]],
     chunks |-> chunks]

\* TemplateUnit.generate(state): [raised, field, coords, dims, shape, chunks].
\* The placeholder is an empty dask-backed array over the coordinates, in the
\* canonical order, carrying the declared attrs.
GenerateIgnoringDeclaredDims(tu, by, st) ==
    [raised |-> FALSE,
     field  |-> [by |-> by, kind |-> "empty", attrs |-> tu.attrs],
     coords |-> IF IsNone(st) THEN <<>> ELSE st.coords,
     dims   |-> <<>>, shape |-> <<>>, chunks |-> <<>>]

TemplateUnitGenerate(tu, by, st) ==
    IF Unresolved(tu, st) \/ BadChunks(tu, st) \/ order_data(CoordsName(tu)).raised
    THEN NoPlaceholder
    ELSE Placeholder(tu.name,
                     ensure_coordinate_integrity(
                        [vars   |-> [n \in {tu.name} |->
                                       [by |-> by, kind |-> "empty", attrs |-> tu.attrs]],
                         coords |-> CoordsSize(tu, st)]),
                     order_data(CoordsName(tu)).dims,
                     OrderedChunks(tu))

\* xr.Dataset({name: placeholder}) of the placeholders gen[k] (in a dict the
\* last unit of a name is the one kept): [raised, ds, layout], layout giving
\* each field's dimension order and shape. Fails when a unit failed, and when
\* two placeholders disagree on the size of a coordinate.
DatasetOf(template, gen) ==
    LET last(n) == CHOOSE k \in DOMAIN template :
                      /\ template[k].name = n
                      /\ \A m \in DOMAIN template : template[m].name = n => m <= k
        names == {template[k].name : k \in DOMAIN template}
        kept  == {last(n) : n \in names}
        conflict == \E k, m \in kept : \E c \in DOMAIN gen[k].coords \cap DOMAIN gen[m].coords :
                        gen[k].coords[c] # gen[m].coords[c]
    IN IF (\E k \in DOMAIN template : gen[k].raised) \/ conflict
       THEN [raised |-> TRUE, ds |-> EmptyDataset, layout |-> <<>>]
       ELSE [raised |-> FALSE,
             ds |-> ensure_coordinate_integrity(
                      [vars   |-> [n \in names |-> gen[last(n)].field],
                       coords |-> [c \in UNION {DOMAIN gen[k].coords : k \in kept} |->
                                     gen[CHOOSE k \in kept : c \in DOMAIN gen[k].coords].coords[c]]]),
             layout |-> [n \in names |-> [dims |-> gen[last(n)].dims,
                                          shape |-> gen[last(n)].shape]]]

\* template.generate(state) for template in self.template_unit, the first k.
RECURSIVE GenerateEach(_, _, _, _)
GenerateEach(template, by, st, k) ==
    IF k = 0 THEN <<>>
    ELSE Append(GenerateEach(template, by, st, k - 1),
                TemplateUnitGenerate(template[k], by, st))

\* Template.generate(state): every unit's generate, then one Dataset.
TemplateGenerate(template, by, st) ==
    DatasetOf(template, GenerateEach(template, by, st, Len(template)))

-----------------------------------------------------------------------------
(* Transformation functions: the callables a KernelUnit wraps.             *)
(*   "new"   returns a new Dataset holding the fields `out`, each with the *)
(*           function's own metadata `attrs`;                              *)
(*   "same"  returns the very State object it was given;                   *)
(*   "raise" raises;                                                       *)
(*   "reading" reads the fields `reads` of the State (state[name], a       *)
(*           KeyError when one is absent) and returns a new Dataset        *)
(*           holding the fields `out`.                                     *)

FunctionAttrs == [units |-> "raw", source |-> "function"]

Functions ==
    {[kind |-> "new", out |-> o, attrs |-> FunctionAttrs] : o \in {{"x"}, {"x", "y"}}}
    \cup {[kind |-> "same", out |-> {}, attrs |-> <<>>],
          [kind |-> "raise", out |-> {}, attrs |-> <<>>]}

\* self.function(state): [raised, same, ds]; `same` says that ds IS the state
\* object, so that a later assignment to ds is an assignment to the state.
Function(ku, by, st) ==
    CASE ku.function.kind = "raise" -> [raised |-> TRUE, same |-> FALSE, ds |-> EmptyDataset]
      [] ku.function.kind = "same"  -> [raised |-> FALSE, same |-> TRUE, ds |-> st]
      [] ku.function.kind = "reading" /\ ~(ku.function.reads \subseteq Names(st)) ->
            [raised |-> TRUE, same |-> FALSE, ds |-> EmptyDataset]
      [] OTHER ->
            [raised |-> FALSE, same |-> FALSE,
             ds |-> [vars   |-> [n \in ku.function.out |->
                                    [by |-> by,
                                     kind |-> IF IsDask(st) THEN "dask" ELSE "numpy",
                                     attrs |-> ku.function.attrs]],
                     coords |-> st.coords]]

-----------------------------------------------------------------------------
(* KernelUnit *)

Ev(op, unit, caller) == [op |-> op, unit |-> unit, caller |-> caller]

\* The loop of _run_without_dask over self.template.template_unit, from the
\* k-th unit on: a declared name missing from results raises ValueError, a
\* present one has its attrs assigned (results[name] = ...assign_attrs(...)).
RECURSIVE CheckAndAssign(_, _, _)
CheckAndAssign(template, k, results) ==
    IF k > Len(template) THEN [raised |-> FALSE, ds |-> results]
    ELSE IF template[k].name \notin Names(results) THEN [raised |-> TRUE, ds |-> results]
    ELSE CheckAndAssign(template, k + 1,
            [results EXCEPT !.vars[template[k].name].attrs = assign_attrs(@, template[k].attrs)])

RunStrippingUndeclared(ku, j, st) ==
    LET f == Function(ku, j, st)
        a == CheckAndAssign(ku.template, 1, f.ds)
        declared == {ku.template[k].name : k \in DOMAIN ku.template}
    IN IF f.raised
       THEN [raised |-> TRUE, results |-> EmptyDataset, arg |-> st,
             events |-> <<Ev("function", j, "run")>>]
       ELSE [raised  |-> a.raised,
             results |-> IF a.raised THEN EmptyDataset
                         ELSE [a.ds EXCEPT !.vars = [n \in declared |-> a.ds.vars[n]]],
             arg     |-> st,
             events  |-> <<Ev("function", j, "run")>>]

\* KernelUnit._run_without_dask(state): [raised, results, arg, events], where
\* arg is the content of the state object after the call: results[name] = ...
\* is an item assignment on the object the function returned, and that object
\* is the state itself when the function returned its argument.
_run_without_dask(ku, j, st) ==
    LET f == Function(ku, j, st)
        a == CheckAndAssign(ku.template, 1, f.ds)
    IN IF f.raised
       THEN [raised |-> TRUE, results |-> EmptyDataset, arg |-> st,
             events |-> <<Ev("function", j, "run")>>]
       ELSE [raised  |-> a.raised,
             results |-> IF a.raised THEN EmptyDataset ELSE a.ds,
             arg     |-> IF f.same THEN a.ds ELSE st,
             events  |-> <<Ev("function", j, "run")>>]

MapBlocksIgnoringTemplate(ku, j, st) ==
    LET f == Function(ku, j, st)
    IN [raised  |-> f.raised,
        results |-> f.ds,
        arg     |-> st,
        events  |-> <<Ev("function", j, "run"), Ev("generate", j, "run")>>]

\* KernelUnit._map_block_with_dask(state): the placeholder is generated first;
\* xr.map_blocks(function, state, template=placeholder) then calls
\* function(state) at once when no variable of state is dask-backed, and
\* otherwise returns a deferred result shaped like the placeholder (names and
\* attrs of the template) without calling the function.
_map_block_with_dask(ku, j, st) ==
    LET g == TemplateGenerate(ku.template, j, st)
        f == Function(ku, j, st)
    IN IF g.raised
       THEN [raised |-> TRUE, results |-> EmptyDataset, arg |-> st,
             events |-> <<Ev("generate", j, "run")>>]
       ELSE IF ~IsDask(st)
       THEN [raised  |-> f.raised,
             results |-> f.ds,
             arg     |-> st,
             events  |-> <<Ev("generate", j, "run"), Ev("function", j, "run")>>]
       ELSE [raised  |-> FALSE,
             results |-> [g.ds EXCEPT !.vars =
                            [n \in Names(g.ds) |-> [g.ds.vars[n] EXCEPT !.kind = "deferred"]]],
             arg     |-> st,
             events  |-> <<Ev("generate", j, "run")>>]

\* KernelUnit.run(state)
KernelUnitRun(ku, j, st) ==
    IF ku.parallel THEN _map_block_with_dask(ku, j, st) ELSE _run_without_dask(ku, j, st)

-----------------------------------------------------------------------------
(* Score processors (cost_function/processor.py) and spatial observations
   (observations/spatial.py). The State holds, for one cell, the biomass of
   each functional group (in `units`), and the functional-group positions of
   the day layer and of the night layer. An observation holds its day/night
   discriminator, its units and its value. *)

\* The members of DayCycle the processors know.
DayCycle == {"DAY", "NIGHT"}

\* _extract_observation_type(state, observation_type): [raised, error, positions]
ExtractDefaultingToNight(st, observation_type) ==
    [raised |-> FALSE, error |-> "",
     positions |-> IF observation_type = "DAY" THEN st.day_layer ELSE st.night_layer]

_extract_observation_type(st, observation_type) ==
    IF observation_type = "DAY"
    THEN [raised |-> FALSE, error |-> "", positions |-> st.day_layer]
    ELSE IF observation_type = "NIGHT"
    THEN [raised |-> FALSE, error |-> "", positions |-> st.night_layer]
    ELSE [raised |-> TRUE, error |-> "ValueError", positions |-> <<>>]

\* prediction.pint.quantify().pint.to(units).pint.dequantify(): grams to
\* milligrams, or the same units.
PintTo(biomass, from, to) ==
    [g \in DOMAIN biomass |-> IF from = "g" /\ to = "mg" THEN 1000 * biomass[g] ELSE biomass[g]]

\* prediction.sel({functional_group: fg_positions, ...})
Sel(prediction, fg_positions) ==
    [k \in DOMAIN fg_positions |-> prediction[fg_positions[k]]]

\* prediction.sum(functional_group)
RECURSIVE SumOver(_, _)
SumOver(prediction, k) ==
    IF k = 0 THEN 0 ELSE SumOver(prediction, k - 1) + prediction[k]

\* The steps of _format_prediction before its selection.
FormatSteps(preprocess) ==
    CASE preprocess = "resample" -> <<"resample">>
      [] preprocess = "interpolate" -> <<"resample", "interpolate_na">>
      [] OTHER -> <<>>

\* _pre_process_prediction(state, observation): [raised, error, steps,
\* positions, prediction]; steps lists what was applied to the biomass.
_pre_process_prediction(proc, st, obs) ==
    LET e == _extract_observation_type(st, obs.observation_type)
    IN IF e.raised
       THEN [raised |-> TRUE, error |-> e.error, steps |-> <<>>,
             positions |-> <<>>, prediction |-> 0]
       ELSE [raised |-> FALSE, error |-> "",
             steps |-> <<"pint.to">>
                       \o (IF proc.kind = "spatial" THEN <<"sel nearest">>
                           ELSE FormatSteps(proc.preprocess) \o <<"sel">>)
                       \o <<"sum", "squeeze">>,
             positions |-> e.positions,
             prediction |-> SumOver(Sel(PintTo(st.biomass, st.units, obs.units), e.positions),
                                    Len(e.positions))]

NoScore ==
    [called |-> FALSE, raised |-> FALSE, error |-> "", steps |-> <<>>,
     positions |-> <<>>, compared |-> <<>>]

\* process(state, observation): the comparator is applied to the prediction
\* and the observation, or to log10(1 + .) of both.
Process(proc, st, obs) ==
    LET p == _pre_process_prediction(proc, st, obs)
    IN IF p.raised
       THEN [called |-> TRUE, raised |-> TRUE, error |-> p.error, steps |-> p.steps,
             positions |-> <<>>, compared |-> <<>>]
       ELSE [called |-> TRUE, raised |-> FALSE, error |-> "",
             steps |-> p.steps \o (IF proc.kind = "log" THEN <<"log10", "comparator">>
                                   ELSE <<"comparator">>),
             positions |-> p.positions,
             compared |-> <<p.prediction, obs.value>>]

\* required_coords of SpatialObservation.__post_init__
RequiredCoordsWithoutZ == <<"T", "X", "Y">>

RequiredCoords == <<"T", "X", "Y", "Z">>

\* Observation.__post_init__: the coordinates every observation must have.
ObservationPostInit(coords) ==
    [raised |-> ~({"T", "X", "Y"} \subseteq coords),
     error  |-> IF {"T", "X", "Y"} \subseteq coords THEN "" ELSE "ValueError"]

\* SpatialObservation.__post_init__ on data with these coordinates.
SpatialPostInit(coords) ==
    IF ObservationPostInit(coords).raised THEN ObservationPostInit(coords)
    ELSE [raised |-> \E k \in DOMAIN RequiredCoords : RequiredCoords[k] \notin coords,
          error  |-> IF \E k \in DOMAIN RequiredCoords : RequiredCoords[k] \notin coords
                     THEN "ValueError" ELSE ""]

NoObservation == [observation_type |-> "DAY", units |-> "g", value |-> 0]
NoSpatial == [status |-> "none", coords |-> {}, error |-> ""]

\* No ScoreProcessor is involved, no observation constructed.
NoScoreCalls ==
    /\ processor = [kind |-> "timeseries", preprocess |-> "None"]
    /\ ostate = [day_layer |-> <<>>, night_layer |-> <<>>, biomass |-> <<>>, units |-> "g"]
    /\ observation = NoObservation
    /\ score = NoScore
    /\ spatial = NoSpatial

-----------------------------------------------------------------------------
(* The biomass function (function/biomass.py) and its time integration
   (compiled_functions/biomass_compiled_functions.py), for one cell of one
   functional group: every statement of the scheme is element-wise over the
   cells and the groups. A field is a sequence over the time index of
   [nan, v]; the timestep is counted in half days. *)

Value(v) == [nan |-> FALSE, v |-> v]
NaN == [nan |-> TRUE, v |-> 0]

\* _format_fields: np.nan_to_num(forcing.data, 0.0).astype(np.float64)
_format_fields(field) == [t \in DOMAIN field |-> IF field[t].nan THEN 0 ELSE field[t].v]

\* int(delta_time) of a timestep counted in half days
IntDays(halves) == halves \div 2

\* biomass_euler_explicite(recruited, mortality, initial_conditions,
\* delta_time): the biomass of the time indices up to the t-th. A None
\* initial condition is zero.
RECURSIVE EulerLosingRecruitment(_, _, _, _, _)
EulerLosingRecruitment(recruited, mortality, initial_conditions, delta_time, t) ==
    IF t = 0 THEN <<>>
    ELSE LET before == EulerLosingRecruitment(recruited, mortality, initial_conditions,
                                              delta_time, t - 1)
             b == IF t = 1 THEN initial_conditions ELSE before[t - 1]
         IN Append(before, b - delta_time * recruited[t] - delta_time * mortality[t] * b)

RECURSIVE biomass_euler_explicite(_, _, _, _, _)
biomass_euler_explicite(recruited, mortality, initial_conditions, delta_time, t) ==
    IF t = 0 THEN <<>>
    ELSE LET before == biomass_euler_explicite(recruited, mortality, initial_conditions,
                                               delta_time, t - 1)
             b == IF t = 1 THEN initial_conditions ELSE before[t - 1]
         IN Append(before, b + delta_time * recruited[t] - delta_time * mortality[t] * b)

\* biomass(state): the fields formatted, the initial condition when the state
\* has one, the scheme run over the whole time axis.
Biomass(st) ==
    biomass_euler_explicite(
        _format_fields(st.recruited),
        _format_fields(st.mortality),
        IF st.initial.none THEN 0 ELSE _format_fields(<<st.initial.value>>)[1],
        IntDays(st.timestep),
        Len(st.recruited))

NoInitialCondition == [none |-> TRUE, value |-> NaN]
InitialCondition(v) == [none |-> FALSE, value |-> v]

\* biomass() is not involved.
NoBiomassCalls ==
    /\ forcing = [recruited |-> <<>>, mortality |-> <<>>,
                  initial |-> NoInitialCondition, timestep |-> 0]
    /\ biomass_out = [called |-> FALSE, biomass |-> <<>>]

-----------------------------------------------------------------------------
(* beverton_holt(biomass, alpha) of compiled_functions/beverton_holt.py, for
   one element of the array. A number is a fraction [num, den], den > 0. *)

Fraction(n, d) == [num |-> n, den |-> d]

BevertonHoltUnsaturated(biomass, alpha) ==
    Fraction(alpha.num * biomass.num, alpha.den * biomass.den)

\* alpha * biomass / (1 + alpha * biomass)
beverton_holt(biomass, alpha) ==
    Fraction(alpha.num * biomass.num, alpha.den * biomass.den + alpha.num * biomass.num)

\* beverton_holt is not involved.
NoBevertonHoltCalls ==
    /\ bh_in = [biomass |-> Fraction(0, 1), alpha |-> Fraction(0, 1)]
    /\ bh_out = [called |-> FALSE, value |-> Fraction(0, 1)]

-----------------------------------------------------------------------------
(* The genetic algorithm (algorithm/genetic_algorithm) *)

\* The fitness of an Individual that has not been evaluated.
NoFitness == [valid |-> FALSE, value |-> 0]

\* The evaluation strategies.
Strategies == {"sequential", "parallel", "distributed"}

\* The gene vectors: one gene; Model.run raises on the configuration of gene 0.
Genes == {0, 1, 2}

\* A new Individual: its fitness is absent.
Individual(genes) == [genes |-> genes, fitness |-> NoFitness]

\* The evaluation of one Individual: the Configuration of its genes,
\* Model.run, CostFunction.process; a scalar, or the exception raised.
Evaluate(genes) ==
    IF genes = 0 THEN [status |-> "raised", value |-> 0]
    ELSE [status |-> "ok", value |-> genes * genes]

\* What a worker unit reports: the evaluation, or for a pool or a cluster
\* worker a timeout.
Outcomes(st, genes) ==
    IF st = "sequential" THEN {Evaluate(genes)}
    ELSE {Evaluate(genes), [status |-> "timeout", value |-> 0]}

\* One of the completed evaluations failed.
NeverFailed(done) == FALSE

Failed(done) == \E k \in DOMAIN done : done[k].outcome.status # "ok"

\* The fitness sequence of a batch of n evaluations, all completed.
CollectAsCompleted(done, n) == [k \in 1..n |-> done[k].outcome.value]

Collect(done, n) ==
    [k \in 1..n |-> (CHOOSE e \in Range(done) : e.position = k).outcome.value]

\* The Individuals with the fitness values of a fitness sequence.
WithoutFitness(individuals, values) == individuals

WithFitness(individuals, values) ==
    [k \in DOMAIN individuals |->
        [individuals[k] EXCEPT !.fitness = [valid |-> TRUE, value |-> values[k]]]]

RECURSIVE MinOf(_, _)
MinOf(individuals, k) ==
    IF k = 1 THEN individuals[1].fitness.value
    ELSE LET m == MinOf(individuals, k - 1)
         IN IF individuals[k].fitness.value < m THEN individuals[k].fitness.value ELSE m

RECURSIVE MaxOf(_, _)
MaxOf(individuals, k) ==
    IF k = 1 THEN individuals[1].fitness.value
    ELSE LET m == MaxOf(individuals, k - 1)
         IN IF individuals[k].fitness.value > m THEN individuals[k].fitness.value ELSE m

\* The Logbook record of a generation.
Record(g, individuals) ==
    [generation |-> g, category |-> "population",
     min |-> MinOf(individuals, Len(individuals)),
     max |-> MaxOf(individuals, Len(individuals))]

\* The genetic algorithm is not involved.
NoGeneticCalls ==
    /\ strategy = "none"
    /\ budget = 0
    /\ phase = "idle"
    /\ generation = 0
    /\ population = <<>>
    /\ selected = <<>>
    /\ offspring = <<>>
    /\ submitted = FALSE
    /\ pending = {}
    /\ completed = <<>>
    /\ fitnesses = [some |-> FALSE, values |-> <<>>]
    /\ logbook = <<>>

-----------------------------------------------------------------------------
(* Kernel *)

Templates == {<<XTemplate>>, <<XTemplate, YTemplate>>}

\* to_remove_from_state: None (nothing) or a list of names.
Removals == {<<>>, <<"x", "w">>}

\* The classes kernel_unit_factory(name, function, template, to_remove) makes.
KernelUnitClasses ==
    {[template |-> t, function |-> f, to_remove_from_state |-> r] :
        t \in Templates, f \in Functions, r \in Removals}

\* CustomKernelUnit.__init__(chunk, parallel): an instance of the class; its
\* Template holds template_class(chunk) for every class of the list.
CustomKernelUnitSequential(kuc, ch, par) ==
    [template |-> [k \in DOMAIN kuc.template |-> CustomTemplateUnit(kuc.template[k], ch)],
     function |-> kuc.function,
     to_remove_from_state |-> kuc.to_remove_from_state, parallel |-> FALSE]

CustomKernelUnit(kuc, ch, par) ==
    [template |-> [k \in DOMAIN kuc.template |-> CustomTemplateUnit(kuc.template[k], ch)],
     function |-> kuc.function,
     to_remove_from_state |-> kuc.to_remove_from_state, parallel |-> par]

\* for var in ku.to_remove_from_state or []: if var in state: drop it.
\* From the k-th name on: [raised, ds].
RECURSIVE RemoveFromState(_, _, _)
RemoveNothing(ds, rem, k) == [raised |-> FALSE, ds |-> ds]

RemoveFromState(ds, rem, k) ==
    IF k > Len(rem) THEN [raised |-> FALSE, ds |-> ds]
    ELSE IF rem[k] \notin Names(ds) THEN RemoveFromState(ds, rem, k + 1)
    ELSE LET d == drop_vars(ds, rem[k])
         IN IF d.raised THEN d ELSE RemoveFromState(d.ds, rem, k + 1)

\* for ku in self.kernel_unit: the k-th iteration runs the k-th unit.
IterationUnitReversed(units, k) == Len(units) + 1 - k

IterationUnit(units, k) == k

\* One iteration of the loop of Kernel.run on unit j: results = ku.run(state);
\* state = results.merge(state, compat="override"); the removals. A raise
\* leaves the loop and Kernel.run: [raised, results, state, arg, events].
LoopBodyWithRecovery(units, j, st) ==
    LET r  == KernelUnitRun(units[j], j, st)
        rm == RemoveFromState(MergeOverride(r.results, r.arg),
                              units[j].to_remove_from_state, 1)
    IN [raised  |-> FALSE,
        results |-> r.results,
        state   |-> rm.ds,
        arg     |-> r.arg,
        events  |-> <<Ev("unit", j, "run")>> \o r.events]

LoopBodyValidating(units, j, st) ==
    LET r  == KernelUnitRun(units[j], j, st)
        rm == RemoveFromState(MergeOverride(r.results, r.arg),
                              units[j].to_remove_from_state, 1)
    IN [raised  |-> r.raised \/ rm.raised,
        results |-> r.results,
        state   |-> IF r.raised THEN r.arg ELSE ensure_coordinate_integrity(rm.ds),
        arg     |-> r.arg,
        events  |-> <<Ev("unit", j, "run")>> \o r.events
                    \o (IF r.raised THEN <<>> ELSE <<Ev("integrity", 0, "run")>>)]

LoopBody(units, j, st) ==
    LET r  == KernelUnitRun(units[j], j, st)
        rm == RemoveFromState(MergeOverride(r.results, r.arg),
                              units[j].to_remove_from_state, 1)
    IN [raised  |-> r.raised \/ rm.raised,
        results |-> r.results,
        state   |-> IF r.raised THEN r.arg ELSE rm.ds,
        arg     |-> r.arg,
        events  |-> <<Ev("unit", j, "run")>> \o r.events]

\* The states a caller passes in.
InputAttrs == [source |-> "forcing"]

InputStates ==
    {[vars   |-> [n \in {"w", "x"} |-> [by |-> 0, kind |-> kd, attrs |-> InputAttrs]],
      coords |-> cs] :
        kd \in {"numpy", "dask"}, cs \in {[T |-> 2], [T |-> 2, Y |-> 3]}}

RECURSIVE SeqsUpTo(_, _)
SeqsUpTo(S, n) ==
    IF n = 0 THEN {<<>>}
    ELSE SeqsUpTo(S, n - 1) \cup
         {Append(s, e) : s \in {q \in SeqsUpTo(S, n - 1) : Len(q) = n - 1}, e \in S}

NoResult == [some |-> FALSE, ds |-> EmptyDataset]
NoTemplate == [called |-> FALSE, raised |-> FALSE, ds |-> EmptyDataset]
NoPrevious == [called |-> FALSE, state |-> EmptyDataset, pc |-> "idle", returned |-> NoResult]

\* configuration.forcing.chunk.as_dict(): the chunk sizes a Kernel is given.
KernelChunk == Chunks([T |-> 1])

\* Kernel.__init__(kernel_unit, chunk, parallel):
\* self.kernel_unit = [ku(chunk, parallel) for ku in kernel_unit].
KernelInit(classes, ch, par) ==
    [k \in DOMAIN classes |-> CustomKernelUnit(classes[k], ch, par)]

\* No TemplateUnit has been constructed by hand, no generate called.
NoTemplateCalls ==
    /\ template_unit = <<>>
    /\ rejected = <<>>
    /\ tstate = None
    /\ ugen = <<>>
    /\ tgen = <<>>

\* No method of the Kernel has been called yet.
NoKernelCalls ==
    /\ input0 = input
    /\ state = input
    /\ pc = "idle"
    /\ i = 0
    /\ returned = NoResult
    /\ received = <<>>
    /\ partials = <<>>
    /\ log = <<>>
    /\ tres = NoTemplate
    /\ previous = NoPrevious

\* Nothing has been called yet.
NotCalled ==
    /\ NoKernelCalls
    /\ NoTemplateCalls
    /\ NoScoreCalls
    /\ NoBiomassCalls
    /\ NoBevertonHoltCalls
    /\ NoGeneticCalls

\* A constructed Kernel and the state object of a caller.
Init ==
    /\ parallel \in BOOLEAN
    /\ given \in SeqsUpTo(KernelUnitClasses, MaxUnits)
    /\ chunk = KernelChunk
    /\ kernel_unit = KernelInit(given, chunk, parallel)
    /\ input \in InputStates
    /\ NotCalled

\* The caller calls Kernel.run(state).
CallRun ==
    /\ pc = "idle"
    /\ pc' = "run"
    /\ state' = input
    /\ UNCHANGED <<kernel_unit, parallel, chunk, given, input, input0, i, returned,
                   received, partials, log, tres, previous, tvars, ovars, bvars, hvars, gvars>>

\* One iteration of the loop of Kernel.run. Before the first merge the local
\* `state` is the caller's object, so what happens to it happens to `input`.
RunUnit ==
    /\ pc = "run"
    /\ i < Len(kernel_unit)
    /\ LET j == IterationUnit(kernel_unit, i + 1)
           b == LoopBody(kernel_unit, j, state)
       IN /\ received' = Append(received, state)
          /\ partials' = Append(partials, [raised |-> KernelUnitRun(kernel_unit[j], j, state).raised,
                                            ds |-> b.results])
          /\ log' = log \o b.events
          /\ input' = IF i = 0 THEN b.arg ELSE input
          /\ state' = b.state
          /\ pc' = IF b.raised THEN "failed" ELSE "run"
          /\ i' = IF b.raised THEN i ELSE i + 1
    /\ UNCHANGED <<kernel_unit, parallel, chunk, given, input0, returned, tres, previous, tvars, ovars, bvars, hvars, gvars>>

\* After the loop: return coordinate_authority.ensure_coordinate_integrity(state).
Finish ==
    /\ pc = "run"
    /\ i = Len(kernel_unit)
    /\ returned' = [some |-> TRUE, ds |-> ensure_coordinate_integrity(state)]
    /\ log' = Append(log, Ev("integrity", 0, "run"))
    /\ pc' = "done"
    /\ UNCHANGED <<kernel_unit, parallel, chunk, given, input, input0, state, i,
                   received, partials, tres, previous, tvars, ovars, bvars, hvars, gvars>>

RECURSIVE MergeAllLastWins(_, _, _)
MergeAllLastWins(acc, dss, k) ==
    IF k > Len(dss) THEN acc ELSE MergeAllLastWins(MergeOverride(dss[k].ds, acc), dss, k + 1)

\* xr.merge([state] + [unit.template.generate(state) for unit in kernel_unit],
\* compat="override"): every placeholder from the given state, the first wins.
RECURSIVE MergeAll(_, _, _)
MergeAll(acc, dss, k) ==
    IF k > Len(dss) THEN acc ELSE MergeAll(MergeOverride(acc, dss[k].ds), dss, k + 1)

KernelTemplateByRunning(units, st) ==
    IF units = <<>>
    THEN [raised |-> FALSE, ds |-> st, events |-> <<>>]
    ELSE LET r == KernelUnitRun(units[1], 1, st)
         IN [raised |-> r.raised,
             ds     |-> IF r.raised THEN EmptyDataset ELSE MergeOverride(st, r.results),
             events |-> r.events]

\* unit.template.generate(state) for unit in self.kernel_unit, the first k.
RECURSIVE TemplatesOf(_, _, _)
TemplatesOf(units, st, k) ==
    IF k = 0 THEN <<>>
    ELSE Append(TemplatesOf(units, st, k - 1), TemplateGenerate(units[k].template, k, st))

\* Kernel.template(state): [raised, ds, events]. The list comprehension stops
\* at the first unit whose Template.generate raises.
KernelTemplate(units, st) ==
    LET gens == TemplatesOf(units, st, Len(units))
        evs  == [k \in DOMAIN units |-> Ev("generate", k, "template")]
    IN IF \E k \in DOMAIN units : gens[k].raised
       THEN [raised |-> TRUE, ds |-> EmptyDataset,
             events |-> SubSeq(evs, 1, CHOOSE k \in DOMAIN units :
                                  gens[k].raised /\ \A m \in 1..(k - 1) : ~gens[m].raised)]
       ELSE [raised |-> FALSE, ds |-> MergeAll(st, gens, 1), events |-> evs]

\* The caller calls Kernel.template(state) on the state object it holds.
CallTemplate ==
    /\ pc \in {"idle", "done", "failed"}
    /\ ~tres.called
    /\ LET t == KernelTemplate(kernel_unit, input)
       IN /\ tres' = [called |-> TRUE, raised |-> t.raised, ds |-> t.ds]
          /\ log' = log \o t.events
    /\ UNCHANGED <<kernel_unit, parallel, chunk, given, input, input0, state, pc, i,
                   returned, received, partials, previous, tvars, ovars, bvars, hvars, gvars>>

Next == CallRun \/ RunUnit \/ Finish \/ CallTemplate

Spec == Init /\ [][Next]_vars

-----------------------------------------------------------------------------
(* A Kernel of one KernelUnit, over a wider choice of Templates (also empty,
   in another order, with two TemplateUnits of one name), of functions and of
   states: KernelUnit.run on its own. *)

XAltTemplate == [name |-> "x", attrs |-> [units |-> "g", long_name |-> "alt"], dims |-> <<Label("T")>>]

UnitTemplates ==
    Templates \cup {<<>>, <<YTemplate, XTemplate>>,
                    <<XTemplate, XAltTemplate>>, <<XAltTemplate, XTemplate>>}

UnitFunctions ==
    {[kind |-> "new", out |-> o, attrs |-> a] :
        o \in SUBSET {"x", "y"}, a \in {<<>>, [units |-> "raw"], FunctionAttrs}}
    \cup {[kind |-> "same", out |-> {}, attrs |-> <<>>],
          [kind |-> "raise", out |-> {}, attrs |-> <<>>]}

UnitClasses ==
    {[template |-> t, function |-> f, to_remove_from_state |-> r] :
        t \in UnitTemplates, f \in UnitFunctions, r \in Removals}

UnitInputStates ==
    {[vars   |-> [n \in ns |-> [by |-> 0, kind |-> kd, attrs |-> InputAttrs]],
      coords |-> cs] :
        ns \in {{"w"}, {"w", "x"}, {"w", "x", "y"}},
        kd \in {"numpy", "dask"}, cs \in {[T |-> 2], [T |-> 2, Y |-> 3]}}

InitUnit ==
    /\ parallel \in BOOLEAN
    /\ given \in {<<c>> : c \in UnitClasses}
    /\ chunk = KernelChunk
    /\ kernel_unit = KernelInit(given, chunk, parallel)
    /\ input \in UnitInputStates
    /\ NotCalled

SpecUnit == InitUnit /\ [][Next]_vars

-----------------------------------------------------------------------------
(* Two runs of one Kernel, constructed with any of the chunk dicts. *)

\* The chunk dicts: on an axis of the state, on an axis the state lacks.
KernelChunks == {KernelChunk, Chunks([Z |-> 1])}

\* Only a parallel run reads the chunk dict (in Template.generate).
InitTwice ==
    /\ parallel \in BOOLEAN
    /\ chunk \in IF parallel THEN KernelChunks ELSE {KernelChunk}
    /\ given \in SeqsUpTo(KernelUnitClasses, MaxUnits)
    /\ kernel_unit = KernelInit(given, chunk, parallel)
    /\ input \in InputStates
    /\ NotCalled

\* Kernel.run has returned or raised; the caller calls it a second time, with
\* the State object it holds or with a State equal to the one it first gave.
CallAgain ==
    /\ pc \in {"done", "failed"}
    /\ ~previous.called
    /\ previous' = [called |-> TRUE, state |-> input0, pc |-> pc, returned |-> returned]
    /\ \E s2 \in {input, input0} :
          /\ input' = s2
          /\ input0' = s2
          /\ state' = s2
    /\ pc' = "run"
    /\ i' = 0
    /\ returned' = NoResult
    /\ received' = <<>>
    /\ partials' = <<>>
    /\ log' = <<>>
    /\ UNCHANGED <<kernel_unit, parallel, chunk, given, tres, tvars, ovars, bvars, hvars, gvars>>

NextTwice == CallRun \/ RunUnit \/ Finish \/ CallAgain

SpecTwice == InitTwice /\ [][NextTwice]_vars

-----------------------------------------------------------------------------
(* One TemplateUnit, constructed by hand from any dims and chunks, and its
   generate called on a state or on None. *)

\* Longest dims list of a TemplateUnit.
MaxDims == 2

\* The elements of dims: axis labels, strings (one names an axis, one does
\* not), an explicit coordinate array, an object of another type.
DimElements == {Label("T"), Label("Y"), Str("T"), Str("foo"), Array("Z", 2), Other}

\* The dims lists, no two elements of one name.
DimsLists ==
    {d \in SeqsUpTo(DimElements, MaxDims) :
        \A k, m \in DOMAIN d : d[k].name = d[m].name => k = m}

UnitChunks == {NoChunks, KernelChunk, Chunks([Z |-> 1])}

\* The states generate is given: their coordinates and sizes; or None.
TemplateStates ==
    {[vars |-> [n \in {"w"} |-> [by |-> 0, kind |-> "numpy", attrs |-> InputAttrs]],
      coords |-> cs] :
        cs \in {[T |-> 2], [T |-> 2, Y |-> 3], [T |-> 1, Y |-> 3, foo |-> 2]}}
    \cup {None}

\* No Kernel is involved.
NoKernel ==
    /\ parallel = FALSE
    /\ chunk = NoChunks
    /\ given = <<>>
    /\ kernel_unit = <<>>
    /\ input = EmptyDataset
    /\ NoKernelCalls

InitTemplateUnit ==
    /\ NoKernel
    /\ NoScoreCalls
    /\ NoBiomassCalls
    /\ NoBevertonHoltCalls
    /\ NoGeneticCalls
    /\ template_unit = <<>>
    /\ rejected = <<>>
    /\ tstate \in TemplateStates
    /\ ugen = <<>>
    /\ tgen = <<>>

\* TemplateUnit(name="x", attrs=..., dims=dims, chunks=chunks)
NewTemplateUnit ==
    /\ template_unit = <<>>
    /\ rejected = <<>>
    /\ \E dims \in DimsLists, chunks \in UnitChunks :
          LET r == TemplateUnitInit("x", XTemplate.attrs, dims, chunks)
          IN IF r.raised
             THEN /\ rejected' = Append(rejected, [dims |-> dims, error |-> r.error])
                  /\ UNCHANGED template_unit
             ELSE /\ template_unit' = Append(template_unit, r.unit)
                  /\ UNCHANGED rejected
    /\ UNCHANGED <<kvars, ovars, bvars, hvars, gvars, tstate, ugen, tgen>>

\* unit.generate(state), once
GenerateUnit ==
    /\ ugen = <<>>
    /\ \E k \in DOMAIN template_unit :
          ugen' = Append(ugen, [unit |-> k,
                                res  |-> TemplateUnitGenerate(template_unit[k], 0, tstate)])
    /\ UNCHANGED <<kvars, ovars, bvars, hvars, gvars, template_unit, rejected, tstate, tgen>>

NextTemplateUnit == NewTemplateUnit \/ GenerateUnit

SpecTemplateUnit == InitTemplateUnit /\ [][NextTemplateUnit]_vars

-----------------------------------------------------------------------------
(* One Template over a list of TemplateUnit instances, and its generate
   called several times on one state. *)

\* Longest template_unit list of a Template; most calls of its generate.
MaxTemplateUnits == 2
MaxCalls == 2

\* A TemplateUnit class over an explicit coordinate array.
ZTemplate == [name |-> "z", attrs |-> [units |-> "m"], dims |-> <<Array("Z", 2), Label("T")>>]

\* The instances of the classes, as CustomKernelUnit makes them.
TemplateUnitInstances ==
    {CustomTemplateUnit(c, ch) :
        c \in {XTemplate, XAltTemplate, YTemplate, ZTemplate}, ch \in {NoChunks, KernelChunk}}

\* Template(template_unit=[...]): any list of TemplateUnit objects is taken.
InitTemplate ==
    /\ NoKernel
    /\ NoScoreCalls
    /\ NoBiomassCalls
    /\ NoBevertonHoltCalls
    /\ NoGeneticCalls
    /\ template_unit \in SeqsUpTo(TemplateUnitInstances, MaxTemplateUnits)
    /\ rejected = <<>>
    /\ tstate \in TemplateStates
    /\ ugen = <<>>
    /\ tgen = <<>>

\* template.generate(state); the list outlives the call
GenerateTemplateConsuming ==
    /\ Len(tgen) < MaxCalls
    /\ tgen' = Append(tgen, TemplateGenerate(template_unit, 0, tstate))
    /\ template_unit' = <<>>
    /\ UNCHANGED <<kvars, ovars, bvars, hvars, gvars, rejected, tstate, ugen>>

GenerateTemplate ==
    /\ Len(tgen) < MaxCalls
    /\ tgen' = Append(tgen, TemplateGenerate(template_unit, 0, tstate))
    /\ UNCHANGED <<kvars, ovars, bvars, hvars, gvars, template_unit, rejected, tstate, ugen>>

NextTemplate == GenerateTemplate

SpecTemplate == InitTemplate /\ [][NextTemplate]_vars

-----------------------------------------------------------------------------
(* One ScoreProcessor.process call, and one SpatialObservation construction. *)

\* TimeSeriesScoreProcessor with each preprocess, its log variant, and
\* SpatialScoreProcessor.
Processors ==
    {[kind |-> k, preprocess |-> pp] :
        k \in {"timeseries", "log"}, pp \in {"None", "resample", "interpolate"}}
    \cup {[kind |-> "spatial", preprocess |-> "None"]}

\* States of three functional groups, in grams.
ScoreStates ==
    {[day_layer |-> d, night_layer |-> n, biomass |-> <<1, 2, 4>>, units |-> "g"] :
        d \in {<<1>>, <<1, 2>>}, n \in {<<1>>, <<2, 3>>}}

\* Observations: DAY, NIGHT, or a discriminator that is neither.
Observations ==
    {[observation_type |-> t, units |-> u, value |-> 3] :
        t \in DayCycle \cup {"DUSK"}, u \in {"g", "mg"}}

InitScore ==
    /\ NoKernel
    /\ NoTemplateCalls
    /\ NoBiomassCalls
    /\ NoBevertonHoltCalls
    /\ NoGeneticCalls
    /\ processor \in Processors
    /\ ostate \in ScoreStates
    /\ observation \in Observations
    /\ score = NoScore
    /\ spatial = NoSpatial

\* processor.process(state, observation)
CallProcess ==
    /\ ~score.called
    /\ score' = Process(processor, ostate, observation)
    /\ UNCHANGED <<kvars, tvars, bvars, hvars, gvars, processor, ostate, observation, spatial>>

\* SpatialObservation(name=, observation=data, ...), data having the
\* coordinates cs
NewSpatialObservation ==
    /\ spatial.status = "none"
    /\ \E cs \in SUBSET {"T", "X", "Y", "Z"} :
          LET r == SpatialPostInit(cs)
          IN spatial' = [status |-> IF r.raised THEN "rejected" ELSE "built",
                         coords |-> cs, error |-> r.error]
    /\ UNCHANGED <<kvars, tvars, bvars, hvars, gvars, processor, ostate, observation, score>>

NextScore == CallProcess \/ NewSpatialObservation

SpecScore == InitScore /\ [][NextScore]_vars

-----------------------------------------------------------------------------
(* One call of biomass() on a state of up to MaxTime time indices. *)

\* Longest time axis.
MaxTime == 3

\* The fields over a time axis of n indices.
Fields(values, n) == {f \in SeqsUpTo(values, n) : Len(f) = n}

\* The states: recruited (with missing values), mortality, an initial
\* condition or none, a timestep of half a day, one day or two days.
BiomassStates ==
    UNION {[recruited : Fields({NaN, Value(0), Value(1), Value(2)}, n),
            mortality : Fields({Value(0), Value(1)}, n),
            initial   : {NoInitialCondition, InitialCondition(NaN),
                         InitialCondition(Value(0)), InitialCondition(Value(3))},
            timestep  : {1, 2, 4}] : n \in 1..MaxTime}

InitBiomass ==
    /\ NoKernel
    /\ NoTemplateCalls
    /\ NoScoreCalls
    /\ NoBevertonHoltCalls
    /\ NoGeneticCalls
    /\ forcing \in BiomassStates
    /\ biomass_out = [called |-> FALSE, biomass |-> <<>>]

\* biomass(state)
CallBiomass ==
    /\ ~biomass_out.called
    /\ biomass_out' = [called |-> TRUE, biomass |-> Biomass(forcing)]
    /\ UNCHANGED <<kvars, tvars, ovars, hvars, gvars, forcing>>

NextBiomass == CallBiomass

SpecBiomass == InitBiomass /\ [][NextBiomass]_vars

-----------------------------------------------------------------------------
(* The five Kernels of model/acidity_model.py, run on the initial state of a
   configuration. A unit class is the kernel_unit_factory call of its module:
   the function is given by its name, the fields it reads with state[...] and
   the field it returns. *)

\* The attrs of a Template (standard/attributs.py).
Desc(name) == [long_name |-> name]

\* kernel_unit_factory(name, template=[template_unit_factory(out, desc, dims)],
\* function): one declared field, nothing removed.
UnitOf(name, reads, out, dims) ==
    [template |-> <<[name |-> out, attrs |-> Desc(out),
                     dims |-> [k \in DOMAIN dims |-> Label(dims[k])]]>>,
     function |-> [kind |-> "reading", name |-> name, reads |-> reads,
                   out |-> {out}, attrs |-> <<>>],
     to_remove_from_state |-> <<>>]

\* The dims of a field by functional group, time and cell.
FieldDims == <<"functional_group", "T", "Y", "X">>

GlobalMaskKernel ==
    UnitOf("global_mask", {"temperature"}, "mask", <<"Y", "X", "Z">>)
MaskByFunctionalGroupKernel ==
    UnitOf("mask_by_fgroup", {"day_layer", "night_layer", "mask"}, "mask_fgroup",
           <<"functional_group", "Y", "X">>)
AverageTemperatureKernel ==
    UnitOf("average_temperature",
           {"temperature", "day_length", "mask_fgroup", "day_layer", "night_layer"},
           "average_temperature", FieldDims)
MinTemperatureByCohortKernel ==
    UnitOf("min_temperature_by_cohort", {"mean_timestep", "tr_0", "gamma_tr"},
           "min_temperature", <<"functional_group", "cohort">>)
MaskTemperatureKernel ==
    UnitOf("mask_temperature", {"average_temperature", "min_temperature"},
           "mask_temperature", <<"functional_group", "T", "Y", "X", "cohort">>)
SurvivalRateBednarsekKernel ==
    UnitOf("survival_rate_bednarsek",
           {"average_temperature", "average_acidity", "survival_rate_0",
            "gamma_survival_rate_acidity", "gamma_survival_rate_temperature"},
           "survival_rate", FieldDims)
BiomassKernel ==
    UnitOf("biomass", {"recruited", "mortality_field", "timestep"}, "biomass", FieldDims)

\* The units of the other modules of the function package: the field each
\* produces; what their functions read is not modelled.
TemperatureGilloolyKernel == UnitOf("temperature_gillooly", {}, "temperature", <<"T", "Y", "X", "Z">>)
DayLengthKernel == UnitOf("day_length", {}, "day_length", <<"T", "Y", "X">>)
AverageAcidityKernel == UnitOf("average_acidity", {}, "average_acidity", FieldDims)
PrimaryProductionByFgroupKernel ==
    UnitOf("primary_production_by_fgroup", {}, "primary_production_by_fgroup", FieldDims)
MortalityTemperatureAcidityKernel ==
    UnitOf("mortality_temperature_acidity", {}, "mortality_field", FieldDims)
MortalityTemperatureAcidityBedKernel ==
    UnitOf("mortality_temperature_acidity_bed", {}, "mortality_field", FieldDims)
ProductionKernel == UnitOf("production", {}, "recruited", FieldDims)
ApplySurvivalRateToRecruitmentKernel ==
    UnitOf("apply_survival_rate_to_recruitment", {}, "recruited", FieldDims)
BiomassBeverttonHoltKernel == UnitOf("biomass_beverton_holt", {}, "biomass", FieldDims)
BiomassBeverttonHoltSurvivalKernel ==
    UnitOf("biomass_beverton_holt_survival", {}, "biomass", FieldDims)
FoodEfficiencyKernel == UnitOf("food_efficiency", {}, "food_efficiency", FieldDims)
ApplyFoodEfficiencyToPrimaryProductionKernel ==
    UnitOf("apply_food_efficiency_to_primary_production", {},
           "primary_production_by_fgroup", FieldDims)

AcidityKernel ==
    <<TemperatureGilloolyKernel, GlobalMaskKernel, MaskByFunctionalGroupKernel,
      DayLengthKernel, AverageTemperatureKernel, AverageAcidityKernel,
      PrimaryProductionByFgroupKernel, MinTemperatureByCohortKernel,
      MaskTemperatureKernel, MortalityTemperatureAcidityKernel, ProductionKernel,
      BiomassKernel>>

AcidityBedKernelSurvivalFirst ==
    <<TemperatureGilloolyKernel, GlobalMaskKernel, MaskByFunctionalGroupKernel,
      DayLengthKernel, SurvivalRateBednarsekKernel, AverageTemperatureKernel,
      AverageAcidityKernel, PrimaryProductionByFgroupKernel,
      MinTemperatureByCohortKernel, MaskTemperatureKernel,
      MortalityTemperatureAcidityBedKernel, ProductionKernel,
      ApplySurvivalRateToRecruitmentKernel, BiomassKernel>>

AcidityBedKernel ==
    <<TemperatureGilloolyKernel, GlobalMaskKernel, MaskByFunctionalGroupKernel,
      DayLengthKernel, AverageTemperatureKernel, AverageAcidityKernel,
      PrimaryProductionByFgroupKernel, MinTemperatureByCohortKernel,
      MaskTemperatureKernel, SurvivalRateBednarsekKernel,
      MortalityTemperatureAcidityBedKernel, ProductionKernel,
      ApplySurvivalRateToRecruitmentKernel, BiomassKernel>>

AcidityBedBHKernel ==
    <<TemperatureGilloolyKernel, GlobalMaskKernel, MaskByFunctionalGroupKernel,
      DayLengthKernel, AverageTemperatureKernel, AverageAcidityKernel,
      PrimaryProductionByFgroupKernel, MinTemperatureByCohortKernel,
      MaskTemperatureKernel, SurvivalRateBednarsekKernel,
      MortalityTemperatureAcidityBedKernel, BiomassBeverttonHoltKernel>>

AcidityBedBHSurvivalKernel ==
    <<TemperatureGilloolyKernel, GlobalMaskKernel, MaskByFunctionalGroupKernel,
      DayLengthKernel, AverageTemperatureKernel, AverageAcidityKernel,
      PrimaryProductionByFgroupKernel, MinTemperatureByCohortKernel,
      MaskTemperatureKernel, SurvivalRateBednarsekKernel,
      MortalityTemperatureAcidityBedKernel, BiomassBeverttonHoltSurvivalKernel>>

AcidityBedBHPFTSurvivalKernel ==
    <<TemperatureGilloolyKernel, GlobalMaskKernel, MaskByFunctionalGroupKernel,
      DayLengthKernel, AverageTemperatureKernel, AverageAcidityKernel,
      PrimaryProductionByFgroupKernel, FoodEfficiencyKernel,
      ApplyFoodEfficiencyToPrimaryProductionKernel, MinTemperatureByCohortKernel,
      MaskTemperatureKernel, SurvivalRateBednarsekKernel,
      MortalityTemperatureAcidityBedKernel, BiomassBeverttonHoltSurvivalKernel>>

AcidityKernels ==
    {AcidityKernel, AcidityBedKernel, AcidityBedBHKernel, AcidityBedBHSurvivalKernel,
     AcidityBedBHPFTSurvivalKernel}

\* configuration.state: the forcings and the parameters of the functional
\* groups and of the kernel, on the six coordinates; the initial condition
\* and the chlorophyll forcings are there or not.
ConfigurationFields ==
    {"temperature", "primary_production", "acidity",
     "energy_transfert", "lambda_temperature_0", "gamma_lambda_temperature",
     "lambda_acidity_0", "gamma_lambda_acidity", "tr_0", "gamma_tr", "day_layer",
     "night_layer", "timesteps_number", "min_timestep", "max_timestep",
     "mean_timestep", "timestep", "lambda_0", "survival_rate_0",
     "gamma_survival_rate_acidity", "gamma_survival_rate_temperature",
     "density_dependance_parameter_a", "density_dependance_parameter_b"}

OptionalFields ==
    {{}, {"initial_condition_biomass"},
     {"chlorophyll_pico", "chlorophyll_nano", "chlorophyll_micro", "w_pico", "w_nano",
      "w_micro", "ks"},
     {"initial_condition_biomass", "chlorophyll_pico", "chlorophyll_nano",
      "chlorophyll_micro", "w_pico", "w_nano", "w_micro", "ks"}}

ConfigurationStates ==
    {[vars   |-> [n \in ConfigurationFields \cup o |->
                    [by |-> 0, kind |-> kd, attrs |-> InputAttrs]],
      coords |-> [functional_group |-> 2, T |-> 3, Y |-> 2, X |-> 2, Z |-> 2, cohort |-> 2]] :
        o \in OptionalFields, kd \in {"numpy", "dask"}}

\* Model.from_configuration: the Kernel class is given the chunk and the
\* parallel flag of the configuration, the model its state.
InitAcidity ==
    /\ parallel \in BOOLEAN
    /\ given \in AcidityKernels
    /\ chunk = KernelChunk
    /\ kernel_unit = KernelInit(given, chunk, parallel)
    /\ input \in ConfigurationStates
    /\ NotCalled

NextAcidity == CallRun \/ RunUnit \/ Finish

SpecAcidity == InitAcidity /\ [][NextAcidity]_vars

-----------------------------------------------------------------------------
(* One call of beverton_holt on non-negative arguments. *)

\* Largest numerator and denominator.
MaxValue == 3

Fractions == {Fraction(n, d) : n \in 0..MaxValue, d \in 1..MaxValue}

InitBevertonHolt ==
    /\ NoKernel
    /\ NoTemplateCalls
    /\ NoScoreCalls
    /\ NoBiomassCalls
    /\ NoGeneticCalls
    /\ bh_in \in [biomass : Fractions, alpha : Fractions]
    /\ bh_out = [called |-> FALSE, value |-> Fraction(0, 1)]

\* beverton_holt(biomass, alpha)
CallBevertonHolt ==
    /\ ~bh_out.called
    /\ bh_out' = [called |-> TRUE, value |-> beverton_holt(bh_in.biomass, bh_in.alpha)]
    /\ UNCHANGED <<kvars, tvars, ovars, bvars, gvars, bh_in>>

NextBevertonHolt == CallBevertonHolt

SpecBevertonHolt == InitBevertonHolt /\ [][NextBevertonHolt]_vars

-----------------------------------------------------------------------------
(* The loop of the genetic algorithm on an initialized Population. *)

\* Largest Population and largest generation budget.
MaxIndividuals == 2
MaxGenerations == 2

Populations ==
    UNION {{[k \in 1..n |-> Individual(g[k])] : g \in [1..n -> Genes]} : n \in 1..MaxIndividuals}

InitGenetic ==
    /\ NoKernel
    /\ NoTemplateCalls
    /\ NoScoreCalls
    /\ NoBiomassCalls
    /\ NoBevertonHoltCalls
    /\ strategy \in Strategies
    /\ budget \in 1..MaxGenerations
    /\ phase = "evaluate"
    /\ generation = 0
    /\ population \in Populations
    /\ selected = <<>>
    /\ offspring = <<>>
    /\ submitted = FALSE
    /\ pending = {}
    /\ completed = <<>>
    /\ fitnesses = [some |-> FALSE, values |-> <<>>]
    /\ logbook = <<>>

\* The Individuals the current phase evaluates.
Batch == IF phase = "evaluate" THEN population ELSE offspring

\* The strategy is given the Individuals of the phase: one worker unit each.
Submit ==
    /\ phase \in {"evaluate", "evaluate_offspring"}
    /\ ~submitted
    /\ submitted' = TRUE
    /\ pending' = DOMAIN Batch
    /\ completed' = <<>>
    /\ UNCHANGED <<kvars, tvars, ovars, bvars, hvars, strategy, budget, phase, generation,
                   population, selected, offspring, fitnesses, logbook>>

\* A worker unit completes: any pending one, the first one when the strategy
\* is sequential.
Complete ==
    /\ submitted
    /\ ~Failed(completed)
    /\ \E k \in pending :
          /\ strategy = "sequential" => \A m \in pending : k <= m
          /\ \E o \in Outcomes(strategy, Batch[k].genes) :
                completed' = Append(completed, [position |-> k, outcome |-> o])
          /\ pending' = pending \ {k}
    /\ UNCHANGED <<kvars, tvars, ovars, bvars, hvars, strategy, budget, phase, generation,
                   population, selected, offspring, submitted, fitnesses, logbook>>

\* A failed or timed-out worker unit aborts the batch: the failure leaves the
\* strategy and the generation step.
Abort ==
    /\ submitted
    /\ Failed(completed)
    /\ phase' = "failed"
    /\ submitted' = FALSE
    /\ pending' = {}
    /\ fitnesses' = [some |-> FALSE, values |-> <<>>]
    /\ UNCHANGED <<kvars, tvars, ovars, bvars, hvars, strategy, budget, generation,
                   population, selected, offspring, completed, logbook>>

\* Every worker unit has completed: the strategy returns the fitness sequence
\* and the Individuals are given their fitness.
CollectResults ==
    /\ submitted
    /\ pending = {}
    /\ ~Failed(completed)
    /\ LET values == Collect(completed, Len(Batch))
       IN /\ fitnesses' = [some |-> TRUE, values |-> values]
          /\ IF phase = "evaluate"
             THEN /\ population' = WithFitness(population, values)
                  /\ offspring' = offspring
                  /\ phase' = "select"
             ELSE /\ offspring' = WithFitness(offspring, values)
                  /\ population' = population
                  /\ phase' = "replace"
    /\ submitted' = FALSE
    /\ UNCHANGED <<kvars, tvars, ovars, bvars, hvars, strategy, budget, generation,
                   selected, pending, completed, logbook>>

\* Select: as many Individuals as the Population has, drawn from it.
Select ==
    /\ phase = "select"
    /\ \E choice \in [DOMAIN population -> DOMAIN population] :
          selected' = [k \in DOMAIN population |-> population[choice[k]]]
    /\ phase' = "vary"
    /\ UNCHANGED <<kvars, tvars, ovars, bvars, hvars, strategy, budget, generation,
                   population, offspring, submitted, pending, completed, fitnesses, logbook>>

\* Vary: crossover and mutation make new Individuals out of the selected ones.
Vary ==
    /\ phase = "vary"
    /\ \E g \in [DOMAIN selected -> Genes] :
          offspring' = [k \in DOMAIN selected |-> Individual(g[k])]
    /\ selected' = <<>>
    /\ phase' = "evaluate_offspring"
    /\ UNCHANGED <<kvars, tvars, ovars, bvars, hvars, strategy, budget, generation,
                   population, submitted, pending, completed, fitnesses, logbook>>

\* Replace: the offspring become the Population.
Replace ==
    /\ phase = "replace"
    /\ population' = offspring
    /\ offspring' = <<>>
    /\ phase' = "log"
    /\ UNCHANGED <<kvars, tvars, ovars, bvars, hvars, strategy, budget, generation,
                   selected, submitted, pending, completed, fitnesses, logbook>>

\* Log: one record; then the next generation, or the end when the budget is
\* exhausted or the convergence criterion is met.
LogOverwriting ==
    /\ phase = "log"
    /\ logbook' = <<Record(generation + 1, population)>>
    /\ generation' = generation + 1
    /\ \E converged \in BOOLEAN :
          phase' = IF generation + 1 >= budget \/ converged THEN "terminal" ELSE "evaluate"
    /\ UNCHANGED <<kvars, tvars, ovars, bvars, hvars, strategy, budget, population,
                   selected, offspring, submitted, pending, completed, fitnesses>>

Log ==
    /\ phase = "log"
    /\ logbook' = Append(logbook, Record(generation + 1, population))
    /\ generation' = generation + 1
    /\ \E converged \in BOOLEAN :
          phase' = IF generation + 1 >= budget \/ converged THEN "terminal" ELSE "evaluate"
    /\ UNCHANGED <<kvars, tvars, ovars, bvars, hvars, strategy, budget, population,
                   selected, offspring, submitted, pending, completed, fitnesses>>

NextGenetic ==
    Submit \/ Complete \/ Abort \/ CollectResults \/ Select \/ Vary \/ Replace \/ Log

SpecGenetic == InitGenetic /\ [][NextGenetic]_vars

-----------------------------------------------------------------------------
(* Properties of Kernel.run and KernelUnit.run *)

\* A successful unit step: the partial's fields win, the other fields are kept.
C1_MergeStep ==
    (pc = "run" /\ i' = i + 1) =>
        LET p   == partials'[Len(partials')].ds
            rem == Range(kernel_unit[i'].to_remove_from_state)
        IN \A n \in (Names(p) \cup Names(state)) \ rem :
              /\ n \in Names(state')
              /\ state'.vars[n] = IF n \in Names(p) THEN p.vars[n] ELSE state.vars[n]

\* The two-unit example: partials {x} then {x, y}, nothing removed by the second.
C1_TwoUnits ==
    ( /\ pc = "done"
      /\ Len(partials) = 2
      /\ Names(partials[1].ds) = {"x"}
      /\ Names(partials[2].ds) = {"x", "y"}
      /\ kernel_unit[2].to_remove_from_state = <<>> )
    => /\ "x" \in Names(returned.ds) /\ "y" \in Names(returned.ds)
       /\ returned.ds.vars["x"] = partials[2].ds.vars["x"]
       /\ returned.ds.vars["x"].by = 2

\* C1: Kernel.run merges each unit's partial state with last-writer-wins: after
\* a unit's step every field of the partial that the unit does not remove has
\* the partial's value in the state, every earlier field that is not in the
\* partial (and is not removed) is kept unchanged; and for two units producing
\* {x} and {x, y} the final x is the second unit's x and y is present.
C1_LastWriterWins == [][C1_MergeStep]_vars /\ []C1_TwoUnits

C1_Witness ==
    /\ pc = "done"
    /\ Len(partials) = 2
    /\ Names(partials[1].ds) = {"x"}
    /\ Names(partials[2].ds) = {"x", "y"}
    /\ kernel_unit[2].to_remove_from_state = <<>>
    /\ "x" \in Names(input0)
    /\ returned.ds.vars["x"].by = 2
    /\ returned.ds.vars["w"].by = 0

\* A unit step: what is left of the merged names after the removals.
C2_RemovalStep ==
    (pc = "run" /\ Len(partials') = Len(partials) + 1) =>
        LET p   == partials'[Len(partials')]
            j   == Len(partials')
            rem == Range(kernel_unit[j].to_remove_from_state)
        IN /\ (pc' = "failed") <=> p.raised
           /\ ~p.raised =>
                /\ \A n \in rem : n \notin Names(state')
                /\ Names(state') = (Names(p.ds) \cup Names(state)) \ rem

\* C2: removal is applied after the unit's function has run and its partial has
\* been merged: right after a unit's step every name of its
\* to_remove_from_state is absent from the state (also one the unit just
\* produced), a listed name that is not in the state is skipped without error
\* (the step fails only when the unit's run raised), and the names left are
\* exactly the merged ones that are not listed.
C2_RemovalAfterMerge == [][C2_RemovalStep]_vars

C2_Witness ==
    /\ pc = "run"
    /\ i = 2
    /\ kernel_unit[1].to_remove_from_state = <<"x", "w">>
    /\ kernel_unit[2].to_remove_from_state = <<"x", "w">>
    /\ "x" \in Names(partials[2].ds)
    /\ "w" \notin Names(received[2])
    /\ Names(state) = {"y"}

\* C3: Kernel.run invokes its KernelUnits strictly in the list order given at
\* construction, each exactly once, and unit k+1 receives exactly the state
\* produced by the merge and the removals of units 1..k.
C3_UnitsInListOrder ==
    LET calls == SelectSeq(log, LAMBDA e : e.op = "unit")
    IN /\ kernel_unit = [k \in DOMAIN given |-> CustomKernelUnit(given[k], chunk, parallel)]
       /\ Len(calls) = Len(received)
       /\ \A k \in DOMAIN calls : calls[k].unit = k
       /\ Len(calls) = IF pc = "failed" THEN i + 1 ELSE i
       /\ pc = "done" => Len(calls) = Len(kernel_unit)
       /\ Len(received) >= 1 => received[1] = input0
       /\ \A k \in 1..(Len(received) - 1) :
             received[k + 1] =
                RemoveFromState(MergeOverride(partials[k].ds, received[k]),
                                kernel_unit[k].to_remove_from_state, 1).ds

C3_Witness ==
    /\ pc = "done"
    /\ Len(kernel_unit) = 2
    /\ Len(received) = 2
    /\ kernel_unit[1] # kernel_unit[2]
    /\ received[2] # received[1]

\* The names a unit's Template declares.
TemplateNames(ku) == {ku.template[k].name : k \in DOMAIN ku.template}

\* What the function of the j-th call returned, or would return once computed.
FunctionOf(j) == Function(kernel_unit[j], j, received[j])

\* The function's dataset lacks a name the Template declares.
Lacks(j) ==
    /\ ~FunctionOf(j).raised
    /\ \E n \in TemplateNames(kernel_unit[j]) : n \notin Names(FunctionOf(j).ds)

\* C4: for every KernelUnit, whatever its parallel flag, and every state: if
\* the dataset returned by the transformation function lacks a name declared
\* in the unit's Template, KernelUnit.run raises and returns no partial state.
C4_MissingNameRaises ==
    \A j \in DOMAIN partials :
        Lacks(j) => (partials[j].raised /\ partials[j].ds = EmptyDataset)

\* The same with parallel false, where _run_without_dask does the check.
C4_EagerMissingNameRaises ==
    \A j \in DOMAIN partials :
        (Lacks(j) /\ ~kernel_unit[j].parallel) =>
            (partials[j].raised /\ partials[j].ds = EmptyDataset /\ pc = "failed")

\* The names of a Template's units are pairwise distinct.
DistinctNames(template) ==
    \A k, m \in DOMAIN template : template[k].name = template[m].name => k = m

\* C5 as stated: with parallel false, for every name declared in the Template
\* (its names being pairwise distinct) the attrs of that output after
\* KernelUnit.run are exactly the Template's declared attrs, the function's
\* own metadata being discarded.
C5_AttrsExactlyTemplate ==
    \A j \in DOMAIN partials :
        (~kernel_unit[j].parallel /\ ~partials[j].raised
            /\ DistinctNames(kernel_unit[j].template)) =>
            \A k \in DOMAIN kernel_unit[j].template :
                partials[j].ds.vars[kernel_unit[j].template[k].name].attrs
                    = kernel_unit[j].template[k].attrs

\* The attribute keys the Templates, the functions and the states use.
AttrKeys == {"units", "source", "history", "long_name"}

\* C5 amended: with parallel false, for every name declared in the Template,
\* after KernelUnit.run every attribute key declared for that name has the
\* declared value (that of the last TemplateUnit declaring it, when several
\* TemplateUnits share the name), and every attribute the function attached
\* under a key that is not declared for that name is kept with the function's
\* value; the output has no other attribute.
C5_AttrsUpdatedByTemplate ==
    \A j \in DOMAIN partials :
        (~kernel_unit[j].parallel /\ ~partials[j].raised) =>
            \A n \in TemplateNames(kernel_unit[j]) :
                LET tmpl  == kernel_unit[j].template
                    own   == FunctionOf(j).ds.vars[n].attrs
                    a     == partials[j].ds.vars[n].attrs
                    decl(key) == {k \in DOMAIN tmpl :
                                    tmpl[k].name = n /\ key \in DOMAIN tmpl[k].attrs}
                    last(S) == CHOOSE m \in S : \A k \in S : k <= m
                IN /\ DOMAIN a \subseteq AttrKeys
                   /\ \A key \in AttrKeys :
                        IF decl(key) # {}
                        THEN key \in DOMAIN a /\ a[key] = tmpl[last(decl(key))].attrs[key]
                        ELSE /\ (key \in DOMAIN a) <=> (key \in DOMAIN own)
                             /\ key \in DOMAIN own => a[key] = own[key]

C5_Witness ==
    /\ Len(partials) = 1
    /\ ~kernel_unit[1].parallel
    /\ ~partials[1].raised
    /\ given[1].template = <<XTemplate>>
    /\ kernel_unit[1].function.kind = "new"
    /\ partials[1].ds.vars["x"].attrs = [units |-> "kg", source |-> "function"]

\* A raised call is the last call; nothing later ran, nothing was returned.
C6_Failed ==
    /\ \A j \in DOMAIN partials :
          partials[j].raised =>
             /\ pc = "failed"
             /\ j = Len(partials)
             /\ returned = NoResult
             /\ Len(SelectSeq(log, LAMBDA e : e.op = "unit" /\ e.unit = j)) = 1
             /\ \A k \in DOMAIN log : log[k].caller = "run" => log[k].unit <= j

\* A failed run does not resume.
C6_StaysFailed ==
    pc = "failed" =>
        (pc' = "failed" /\ returned' = returned /\ partials' = partials /\ received' = received)

\* C6: Kernel.run is fail-fast: when a unit's run raises, Kernel.run has failed,
\* the failed call is the last one made (no later unit is invoked, the unit is
\* not run again), nothing is returned, and all of this stays so.
C6_FailFast == []C6_Failed /\ [][C6_StaysFailed]_vars

C6_Witness ==
    /\ pc = "failed"
    /\ Len(kernel_unit) = 2
    /\ Len(partials) = 1
    /\ partials[1].raised
    /\ tres.called

\* C7: Kernel.run validates the coordinate integrity of the accumulated state
\* exactly once, after the last unit's merge and removal, and returns the
\* validated state; never between units, and not when a unit fails.
C7_IntegrityOnceAtEnd ==
    LET runlog == SelectSeq(log, LAMBDA e : e.caller = "run")
        passes == SelectSeq(runlog, LAMBDA e : e.op = "integrity")
    IN /\ Len(passes) = IF pc = "done" THEN 1 ELSE 0
       /\ pc = "done" =>
             /\ runlog[Len(runlog)].op = "integrity"
             /\ i = Len(kernel_unit)
             /\ returned = [some |-> TRUE, ds |-> ensure_coordinate_integrity(state)]
       /\ pc # "done" => returned = NoResult

C7_Witness ==
    /\ pc = "done"
    /\ Len(kernel_unit) = 2
    /\ Len(SelectSeq(log, LAMBDA e : e.op = "integrity")) = 1
    /\ Len(SelectSeq(log, LAMBDA e : e.op = "unit")) = 2

\* The step of a Kernel.template call.
C8_TemplateStep ==
    (~tres.called /\ tres'.called) =>
        /\ \A k \in (Len(log) + 1)..Len(log') :
              log'[k].op = "generate" /\ log'[k].caller = "template"
        /\ input' = input
        /\ kernel_unit' = kernel_unit
        /\ ~tres'.raised =>
              /\ Names(tres'.ds) =
                    Names(input) \cup UNION {TemplateNames(kernel_unit[k]) : k \in DOMAIN kernel_unit}
              /\ \A n \in Names(tres'.ds) :
                    \/ n \in Names(input) /\ tres'.ds.vars[n] = input.vars[n]
                    \/ \E k \in DOMAIN kernel_unit :
                          LET g == TemplateGenerate(kernel_unit[k].template, k, input)
                          IN ~g.raised /\ n \in Names(g.ds) /\ tres'.ds.vars[n] = g.ds.vars[n]

\* C8: Kernel.template(state) never invokes a unit's transformation function
\* and never changes the input state or the Kernel: every field of its result
\* is a field of the input state or a placeholder that some unit's
\* Template.generate makes from that same input state.
C8_TemplateRunsNoFunction == [][C8_TemplateStep]_vars

C8_Witness ==
    /\ tres.called
    /\ ~tres.raised
    /\ pc = "idle"
    /\ Len(kernel_unit) = 2
    /\ "y" \in Names(tres.ds)
    /\ tres.ds.vars["y"].kind = "empty"
    /\ Len(log) = 2

\* Every function returns exactly the names its Template declares.
ExactFunctions ==
    \A k \in DOMAIN kernel_unit :
        /\ kernel_unit[k].function.kind = "new"
        /\ kernel_unit[k].function.out = TemplateNames(kernel_unit[k])

\* C9: Kernel.template(state) represents the state at the end of execution:
\* for every Kernel whose functions return exactly their declared outputs
\* (also with a non-empty to_remove_from_state) and every state on which run
\* succeeds, the field names of Kernel.template(state) are those of
\* Kernel.run(state).
C9_TemplateNamesAreRunNames ==
    (pc = "done" /\ tres.called /\ ~tres.raised /\ ExactFunctions) =>
        Names(tres.ds) = Names(returned.ds)

\* C10: KernelUnit.run and Kernel.run never mutate the State object the caller
\* passed in: it has the same fields, values and metadata as before.
C10_InputNeverMutated == input = input0

\* The events of Kernel.run about its j-th unit.
RunEvents(j) == SelectSeq(log, LAMBDA e : e.caller = "run" /\ e.unit = j)

\* C28: when parallel is true, KernelUnit.run generates the Template
\* placeholder from the state it is given before the transformation function
\* is scheduled, and if that generation fails the error propagates out of run
\* and out of Kernel.run with the transformation function never invoked.
C28_GenerateBeforeFunction ==
    \A j \in DOMAIN partials :
        kernel_unit[j].parallel =>
            LET g   == TemplateGenerate(kernel_unit[j].template, j, received[j])
                evs == RunEvents(j)
            IN /\ Len(evs) >= 2
               /\ evs[1].op = "unit"
               /\ evs[2].op = "generate"
               /\ \A k \in 3..Len(evs) : evs[k].op = "function"
               /\ g.raised =>
                    /\ Len(evs) = 2
                    /\ partials[j].raised
                    /\ partials[j].ds = EmptyDataset
                    /\ j = Len(partials)
                    /\ pc = "failed"
                    /\ returned = NoResult

C28_Witness ==
    /\ pc = "failed"
    /\ parallel
    /\ Len(kernel_unit) = 2
    /\ Len(partials) = 2
    /\ ~partials[1].raised
    /\ partials[2].raised
    /\ kernel_unit[2].function.kind = "new"
    /\ TemplateGenerate(kernel_unit[2].template, 2, received[2]).raised
    /\ RunEvents(2) = <<Ev("unit", 2, "run"), Ev("generate", 2, "run")>>

\* The fields the function of the j-th call returned that the unit's Template
\* does not declare.
Undeclared(j) == Names(FunctionOf(j).ds) \ TemplateNames(kernel_unit[j])

\* C29: with parallel false, fields returned by the transformation function
\* that the unit's Template does not declare are neither rejected nor
\* stripped: KernelUnit.run returns them unchanged, without Template attrs,
\* and Kernel.run merges them into the state, where they replace same-named
\* existing fields.
C29_UndeclaredFieldsPass ==
    \A j \in DOMAIN partials :
        (~kernel_unit[j].parallel /\ ~FunctionOf(j).raised) =>
            /\ partials[j].raised <=> Lacks(j)
            /\ ~partials[j].raised =>
                 \A n \in Undeclared(j) :
                    /\ n \in Names(partials[j].ds)
                    /\ partials[j].ds.vars[n] = FunctionOf(j).ds.vars[n]
                    /\ (j = Len(partials) /\ n \notin Range(kernel_unit[j].to_remove_from_state)) =>
                          /\ n \in Names(state)
                          /\ state.vars[n] = FunctionOf(j).ds.vars[n]

C29_Witness ==
    /\ pc = "done"
    /\ ~parallel
    /\ Len(partials) = 1
    /\ given[1].template = <<XTemplate>>
    /\ kernel_unit[1].function.kind = "new"
    /\ kernel_unit[1].to_remove_from_state = <<>>
    /\ Undeclared(1) = {"y"}
    /\ "y" \in Names(input0)
    /\ input0.vars["y"].by = 0
    /\ returned.ds.vars["y"] = [by |-> 1, kind |-> "numpy", attrs |-> FunctionAttrs]
    /\ returned.ds.vars["x"].attrs = [units |-> "kg", source |-> "function"]

\* The first unit of the Kernel that declares the name n.
FirstDeclaring(n) ==
    CHOOSE k \in DOMAIN kernel_unit :
        /\ n \in TemplateNames(kernel_unit[k])
        /\ \A m \in 1..(k - 1) : n \notin TemplateNames(kernel_unit[m])

\* The step of a successful Kernel.template call: the earliest source of
\* every name.
C30_TemplateStep ==
    (~tres.called /\ tres'.called /\ ~tres'.raised) =>
        \A n \in Names(tres'.ds) :
            IF n \in Names(input)
            THEN tres'.ds.vars[n] = input.vars[n]
            ELSE LET k == FirstDeclaring(n)
                     g == TemplateGenerate(kernel_unit[k].template, k, input)
                 IN /\ ~g.raised
                    /\ tres'.ds.vars[n] = g.ds.vars[n]
                    /\ tres'.ds.vars[n].by = k

\* C30: in Kernel.template(state) the earliest source wins on a name
\* collision, the opposite precedence of Kernel.run: a field already in the
\* input state is kept instead of a same-named template placeholder, and of
\* two units declaring the same name the placeholder of the earlier unit is
\* kept; every placeholder is generated from the input state.
C30_TemplateFirstWins == [][C30_TemplateStep]_vars

C30_Witness ==
    /\ pc = "done"
    /\ tres.called
    /\ ~tres.raised
    /\ Len(kernel_unit) = 2
    /\ "y" \in TemplateNames(kernel_unit[1]) \cap TemplateNames(kernel_unit[2])
    /\ tres.ds.vars["x"] = input.vars["x"]
    /\ tres.ds.vars["x"].by = 0
    /\ tres.ds.vars["y"].by = 1
    /\ tres.ds.vars["y"].kind = "empty"
    /\ returned.ds.vars["x"].by = 2
    /\ returned.ds.vars["y"].by = 2

-----------------------------------------------------------------------------
(* Properties of a constructed Kernel *)

\* Every unit instance is its class bound to the Kernel's chunk and parallel.
C11_Bound ==
    /\ Len(kernel_unit) = Len(given)
    /\ \A k \in DOMAIN kernel_unit :
          /\ kernel_unit[k].parallel = parallel
          /\ kernel_unit[k].function = given[k].function
          /\ kernel_unit[k].to_remove_from_state = given[k].to_remove_from_state
          /\ Len(kernel_unit[k].template) = Len(given[k].template)
          /\ \A m \in DOMAIN kernel_unit[k].template :
                /\ kernel_unit[k].template[m].chunks = chunk
                /\ kernel_unit[k].template[m].name = given[k].template[m].name
                /\ kernel_unit[k].template[m].attrs = given[k].template[m].attrs
                /\ kernel_unit[k].template[m].dims = given[k].template[m].dims

\* No step of a run changes the Kernel.
C11_FixedStep ==
    /\ kernel_unit' = kernel_unit
    /\ parallel' = parallel
    /\ chunk' = chunk

\* A second run on a State equal to the first one ends as the first one did.
C11_SameResult ==
    (previous.called /\ pc \in {"done", "failed"} /\ input0 = previous.state) =>
        (pc = previous.pc /\ returned = previous.returned)

-----------------------------------------------------------------------------
(* Properties of TemplateUnit and Template *)

\* The positions of dims that hold an axis label or a string.
NamedDims(tu) == {k \in DOMAIN tu.dims : tu.dims[k].kind \in {"label", "str"}}

\* Every axis label or string of dims is a coordinate of the state.
NamesResolve(tu, st) ==
    \A k \in NamedDims(tu) : ~IsNone(st) /\ tu.dims[k].name \in DOMAIN st.coords

\* Every name of dims is one of the six canonical axes.
CanonicalNames(tu) ==
    \A k \in DOMAIN tu.dims :
        tu.dims[k].name \in {"functional_group", "T", "Y", "X", "Z", "cohort"}

\* C12: TemplateUnit.generate(state) fails and returns no placeholder (a) when
\* state is None and some element of dims is an axis label or a string, and
\* (b) when an element of dims that is an axis label or a string is not among
\* state.coords; an element given as an explicit coordinate array does not
\* have to resolve: with no chunks and canonical names, generate succeeds
\* whenever every label or string resolves, whatever the arrays are.
C12_UnresolvedNameFails ==
    \A c \in DOMAIN ugen :
        LET tu  == template_unit[ugen[c].unit]
            res == ugen[c].res
        IN /\ (IsNone(tstate) /\ NamedDims(tu) # {}) => res = NoPlaceholder
           /\ (~IsNone(tstate) /\ \E k \in NamedDims(tu) :
                                     tu.dims[k].name \notin DOMAIN tstate.coords)
                 => res = NoPlaceholder
           /\ (NamesResolve(tu, tstate) /\ tu.chunks.none /\ CanonicalNames(tu))
                 => ~res.raised

C12_Witness ==
    /\ Len(ugen) = 1
    /\ template_unit[1].dims = <<Label("T"), Label("Y")>>
    /\ ~IsNone(tstate)
    /\ DOMAIN tstate.coords = {"T"}
    /\ ugen[1].res.raised

\* An explicit array that the state lacks, and no state at all: generated.
C12_ArrayWitness ==
    /\ Len(ugen) = 1
    /\ template_unit[1].dims = <<Array("Z", 2)>>
    /\ IsNone(tstate)
    /\ ~ugen[1].res.raised
    /\ ugen[1].res.shape = <<2>>

\* C13: constructing a TemplateUnit fails with a TypeError whenever some
\* element of dims is not an axis label, a string or an explicit coordinate
\* array, and succeeds when every element is one of the three: every rejected
\* construction had such an element, and no constructed TemplateUnit has one.
C13_DimsValidated ==
    /\ \A r \in DOMAIN rejected :
          /\ rejected[r].error = "TypeError"
          /\ \E k \in DOMAIN rejected[r].dims :
                rejected[r].dims[k].kind \notin {"label", "str", "array"}
    /\ \A u \in DOMAIN template_unit :
          \A k \in DOMAIN template_unit[u].dims :
              template_unit[u].dims[k].kind \in {"label", "str", "array"}

C13_Witness ==
    /\ template_unit = <<>>
    /\ rejected = <<[dims |-> <<Label("T"), Other>>, error |-> "TypeError"]>>

\* The canonical order restricted to a set of names.
CanonicalOrder(S) ==
    SelectSeq(<<"functional_group", "T", "Y", "X", "Z", "cohort">>, LAMBDA n : n \in S)

\* The placeholder is laid out canonically, sized by the state, with the
\* declared attrs.
CanonicalPlaceholder(tu, st, res) ==
    /\ ~res.raised
    /\ res.dims = CanonicalOrder({tu.dims[k].name : k \in DOMAIN tu.dims})
    /\ Len(res.shape) = Len(res.dims)
    /\ \A k \in DOMAIN res.dims :
          \E m \in DOMAIN tu.dims :
              /\ tu.dims[m].name = res.dims[k]
              /\ res.shape[k] = IF m \in NamedDims(tu) THEN st.coords[res.dims[k]]
                                ELSE tu.dims[m].size
    /\ res.field.attrs = tu.attrs
    /\ res.field.kind = "empty"

\* C14: for any state containing the coordinates named in dims, whatever the
\* order in which dims lists them, TemplateUnit.generate(state) returns a
\* placeholder whose dimension order is the canonical order restricted to the
\* declared dims, whose size along each axis is the size of that coordinate in
\* the state, and whose attrs are the declared attrs.
C14_CanonicalPlaceholder ==
    \A c \in DOMAIN ugen :
        LET tu == template_unit[ugen[c].unit]
        IN (NamedDims(tu) = DOMAIN tu.dims /\ NamesResolve(tu, tstate))
              => CanonicalPlaceholder(tu, tstate, ugen[c].res)

\* The same when, besides, every name of dims is a canonical axis and every
\* key of chunks is in the state: then the explicit arrays keep their sizes.
C14_CanonicalWhenChunksResolve ==
    \A c \in DOMAIN ugen :
        LET tu == template_unit[ugen[c].unit]
        IN ( /\ NamesResolve(tu, tstate)
             /\ CanonicalNames(tu)
             /\ tu.chunks.none \/ (~IsNone(tstate) /\
                    DOMAIN tu.chunks.map \subseteq (Names(tstate) \cup DOMAIN tstate.coords)) )
              => CanonicalPlaceholder(tu, tstate, ugen[c].res)

\* Permuted dims and a resolving chunks key: the placeholder is canonical.
C14_PermutedWitness ==
    /\ Len(ugen) = 1
    /\ template_unit[1].dims = <<Label("Y"), Str("T")>>
    /\ template_unit[1].chunks = KernelChunk
    /\ tstate.coords = [T |-> 1, Y |-> 3, foo |-> 2]
    /\ ugen[1].res.dims = <<"T", "Y">>
    /\ ugen[1].res.shape = <<1, 3>>

\* No generate call changes the state or the Template.
C15_GenerateStep ==
    /\ tstate' = tstate
    /\ template_unit' = template_unit

\* All calls returned the same names, layouts, coordinates and attrs.
C15_SameResults == \A a, b \in DOMAIN tgen : tgen[a] = tgen[b]

C16_TemplateNamesDistinct ==
    /\ DistinctNames(template_unit)
    /\ \A c \in DOMAIN tgen :
          ~tgen[c].raised => Cardinality(Names(tgen[c].ds)) = Len(template_unit)

-----------------------------------------------------------------------------
(* Properties of the score processors and of the observations *)

\* C17: every ScoreProcessor variant (time series, log time series, spatial)
\* takes the functional-group positions from the state's day_layer when the
\* observation's discriminator is DAY and from night_layer when it is NIGHT;
\* for any other discriminator process fails with a ValueError before any
\* unit conversion, coordinate selection or metric is applied.
C17_DayNightOrValueError ==
    score.called =>
        /\ observation.observation_type = "DAY" =>
              (~score.raised /\ score.positions = ostate.day_layer)
        /\ observation.observation_type = "NIGHT" =>
              (~score.raised /\ score.positions = ostate.night_layer)
        /\ observation.observation_type \notin {"DAY", "NIGHT"} =>
              /\ score.raised
              /\ score.error = "ValueError"
              /\ score.steps = <<>>
              /\ score.compared = <<>>
        /\ ~score.raised =>
              /\ score.steps[1] = "pint.to"
              /\ score.steps[Len(score.steps)] = "comparator"

C17_Witness ==
    /\ score.called
    /\ processor.kind = "spatial"
    /\ observation.observation_type = "DUSK"
    /\ ostate.day_layer # ostate.night_layer
    /\ score.raised

\* The night layer of a log time-series score: groups 2 and 3, in milligrams.
C17_NightWitness ==
    /\ score.called
    /\ processor.kind = "log"
    /\ observation.observation_type = "NIGHT"
    /\ observation.units = "mg"
    /\ ostate.night_layer = <<2, 3>>
    /\ score.compared = <<6000, 3>>

-----------------------------------------------------------------------------
(* Properties of the biomass function *)

\* The mortality is zero at every time index.
ZeroMortality == \A t \in DOMAIN forcing.mortality : forcing.mortality[t] = Value(0)

\* The recruitment is one positive value at every time index.
ConstantPositiveRecruitment ==
    \E v \in 1..2 : \A t \in DOMAIN forcing.recruited : forcing.recruited[t] = Value(v)

\* C19: for zero mortality at every time step and constant positive
\* recruitment, the biomass computed by the biomass kernel unit is
\* non-decreasing along the time axis: biomass[t+1] >= biomass[t] for every
\* time index t.
C19_BiomassNonDecreasing ==
    (biomass_out.called /\ ZeroMortality /\ ConstantPositiveRecruitment) =>
        /\ Len(biomass_out.biomass) = Len(forcing.recruited)
        /\ \A t \in 1..(Len(biomass_out.biomass) - 1) :
              biomass_out.biomass[t + 1] >= biomass_out.biomass[t]

C19_Witness ==
    /\ biomass_out.called
    /\ ZeroMortality
    /\ forcing.recruited = <<Value(2), Value(2), Value(2)>>
    /\ forcing.initial = InitialCondition(Value(3))
    /\ forcing.timestep = 4
    /\ biomass_out.biomass = <<7, 11, 15>>

\* C20: when the state supplies no initial biomass condition, the biomass
\* computed by the biomass kernel unit at the first time index is 0, also
\* under constant positive recruitment.
C20_ZeroAtFirstIndex ==
    (biomass_out.called /\ forcing.initial.none) => biomass_out.biomass[1] = 0

\* Without initial condition the first index holds one step of recruitment.
C20_FirstIndexIsOneStep ==
    (biomass_out.called /\ forcing.initial.none) =>
        biomass_out.biomass[1] =
            IntDays(forcing.timestep) * _format_fields(forcing.recruited)[1]

\* C27: the output follows B(t+1) = B(t) + dt*(R(t) - lambda(t)*B(t)) for
\* every pair of consecutive time indices: the recruitment and the mortality
\* used to go from index t to index t+1 are those of index t.
C27_StepUsesIndexT ==
    biomass_out.called =>
        LET R == _format_fields(forcing.recruited)
            M == _format_fields(forcing.mortality)
            dt == IntDays(forcing.timestep)
            B == biomass_out.biomass
        IN \A t \in 1..(Len(B) - 1) : B[t + 1] = B[t] + dt * (R[t] - M[t] * B[t])

\* The step from index t to index t+1 uses the recruitment and the mortality
\* of index t+1.
C27_StepUsesIndexAfter ==
    biomass_out.called =>
        LET R == _format_fields(forcing.recruited)
            M == _format_fields(forcing.mortality)
            dt == IntDays(forcing.timestep)
            B == biomass_out.biomass
        IN \A t \in 1..(Len(B) - 1) : B[t + 1] = B[t] + dt * (R[t + 1] - M[t + 1] * B[t])

-----------------------------------------------------------------------------
(* Properties of the acidity Kernels *)

\* The position of the unit of the function `name` in a unit list, 0 when the
\* list does not have it.
Position(units, name) ==
    IF \E k \in DOMAIN units : units[k].function.name = name
    THEN CHOOSE k \in DOMAIN units : units[k].function.name = name
    ELSE 0

\* The dependencies <<producer, consumer>>.
Dependencies ==
    {<<"global_mask", "mask_by_fgroup">>,
     <<"mask_by_fgroup", "average_temperature">>,
     <<"day_length", "average_temperature">>,
     <<"average_temperature", "mask_temperature">>,
     <<"min_temperature_by_cohort", "mask_temperature">>,
     <<"average_temperature", "survival_rate_bednarsek">>,
     <<"average_acidity", "survival_rate_bednarsek">>}

-----------------------------------------------------------------------------
(* Properties of beverton_holt *)

\* C21: beverton_holt(biomass, alpha) = alpha*biomass / (1 + alpha*biomass):
\* it returns 0 for every biomass when alpha = 0 and for zero biomass,
\* returns exactly 1/2 at biomass = 1/alpha, and for non-negative alpha and
\* biomass its result is in [0, 1] and never exceeds 1.
C21_BevertonHoltSaturation ==
    bh_out.called =>
        LET b == bh_in.biomass
            a == bh_in.alpha
            r == bh_out.value
        IN /\ r.den > 0
           /\ r.num * (a.den * b.den + a.num * b.num) = a.num * b.num * r.den
           /\ a.num = 0 => r.num = 0
           /\ b.num = 0 => r.num = 0
           /\ (a.num > 0 /\ b.num * a.num = b.den * a.den) => 2 * r.num = r.den
           /\ 0 <= r.num
           /\ r.num <= r.den

C21_Witness ==
    /\ bh_out.called
    /\ bh_in.alpha = Fraction(2, 1)
    /\ bh_in.biomass = Fraction(1, 2)
    /\ 2 * bh_out.value.num = bh_out.value.den
    /\ bh_out.value.num > 0

-----------------------------------------------------------------------------
(* Properties of the genetic algorithm *)

\* The step in which a strategy returns its fitness sequence.
C22_CollectStep ==
    (strategy \in {"parallel", "distributed"} /\ submitted /\ ~submitted' /\ fitnesses'.some) =>
        /\ Len(fitnesses'.values) = Len(Batch)
        /\ \A k \in DOMAIN Batch :
              /\ Evaluate(Batch[k].genes).status = "ok"
              /\ fitnesses'.values[k] = Evaluate(Batch[k].genes).value
        /\ \A k \in DOMAIN completed : completed[k].position \in DOMAIN Batch

\* C22: for a population of N >= 1 individuals evaluated by the parallel (or
\* distributed) strategy, under every interleaving and completion order of
\* the workers, the i-th element of the returned fitness sequence is the
\* fitness of the i-th input individual.
C22_FitnessInInputOrder == [][C22_CollectStep]_vars

C22_Witness ==
    /\ strategy = "parallel"
    /\ phase = "select"
    /\ generation = 0
    /\ Len(population) = 2
    /\ population[1].genes = 1
    /\ population[2].genes = 2
    /\ Len(completed) = 2
    /\ completed[1].position = 2
    /\ completed[2].position = 1
    /\ fitnesses = [some |-> TRUE, values |-> <<1, 4>>]

\* Every Individual the algorithm holds.
Individuals == Range(population) \cup Range(offspring) \cup Range(selected)

\* A failure is in a batch in flight or has ended the run; a fitness is the
\* value of the Individual's own successful evaluation; no position is
\* evaluated twice in one batch.
C23_Failure ==
    /\ Failed(completed) =>
          \/ phase \in {"evaluate", "evaluate_offspring"} /\ submitted
          \/ phase = "failed"
    /\ phase = "failed" => (Failed(completed) /\ ~fitnesses.some /\ ~submitted)
    /\ \A ind \in Individuals :
          ind.fitness.valid =>
             /\ Evaluate(ind.genes).status = "ok"
             /\ ind.fitness.value = Evaluate(ind.genes).value
    /\ \A a, b \in DOMAIN completed : completed[a].position = completed[b].position => a = b

\* A failed generation step does nothing more.
C23_StaysFailed == phase = "failed" => UNCHANGED gvars

\* C23: if the evaluation of any single individual fails (Model.run or
\* CostFunction.process raises, or a worker times out), the whole
\* generation's evaluation batch fails and the failure reaches the caller of
\* the generation step: no individual is given a substitute or worst-case
\* fitness, the failed evaluation is not retried, and no partially evaluated
\* generation goes on to selection.
C23_FailedGeneration == []C23_Failure /\ [][C23_StaysFailed]_vars

C23_Witness ==
    /\ phase = "failed"
    /\ strategy = "distributed"
    /\ generation = 0
    /\ Len(population) = 2
    /\ Len(completed) = 2
    /\ completed[1].outcome.status = "ok"
    /\ completed[2].outcome.status = "timeout"
    /\ \A k \in DOMAIN population : ~population[k].fitness.valid
    /\ logbook = <<>>

C23_RaisedWitness ==
    /\ phase = "failed"
    /\ strategy = "sequential"
    /\ generation = 1
    /\ offspring # <<>>
    /\ completed[Len(completed)].outcome.status = "raised"
    /\ \A k \in DOMAIN offspring : ~offspring[k].fitness.valid

\* C24: in every reachable state of the genetic algorithm, an individual
\* taking part in selection or replacement has a fitness: an individual's
\* fitness is absent from its creation until its evaluation completes, and
\* no individual whose fitness is absent is ever selected.
C24_SelectedHaveFitness ==
    /\ phase \in {"select", "vary", "replace", "log"} =>
          \A k \in DOMAIN population : population[k].fitness.valid
    /\ \A k \in DOMAIN selected : selected[k].fitness.valid
    /\ phase = "replace" => \A k \in DOMAIN offspring : offspring[k].fitness.valid
    /\ phase = "evaluate_offspring" => \A k \in DOMAIN offspring : ~offspring[k].fitness.valid
    /\ (phase = "evaluate" /\ generation = 0) =>
          \A k \in DOMAIN population : ~population[k].fitness.valid

C24_Witness ==
    /\ phase = "vary"
    /\ Len(population) = 2
    /\ Len(selected) = 2
    /\ selected[1] = population[2]
    /\ selected[2] = population[2]
    /\ selected[1].fitness = [valid |-> TRUE, value |-> 4]

\* The order of the phases.
PhaseOrder ==
    {<<"evaluate", "select">>, <<"select", "vary">>, <<"vary", "evaluate_offspring">>,
     <<"evaluate_offspring", "replace">>, <<"replace", "log">>, <<"log", "evaluate">>,
     <<"log", "terminal">>, <<"evaluate", "failed">>, <<"evaluate_offspring", "failed">>}

C25_Step ==
    /\ phase' # phase => <<phase, phase'>> \in PhaseOrder
    /\ logbook' # logbook =>
          /\ phase = "log"
          /\ Len(logbook') = Len(logbook) + 1
          /\ SubSeq(logbook', 1, Len(logbook)) = logbook
          /\ logbook'[Len(logbook')].generation = generation + 1
          /\ generation' = generation + 1
    /\ generation' # generation => logbook' # logbook
    /\ (phase = "log" /\ phase' # phase /\ generation + 1 >= budget) => phase' = "terminal"
    /\ phase = "terminal" => UNCHANGED gvars

C25_Logbook ==
    /\ Len(logbook) = generation
    /\ \A k \in DOMAIN logbook : logbook[k].generation = k
    /\ generation <= budget
    /\ phase \notin {"terminal", "failed"} => generation < budget

C25_ConvergedWitness ==
    /\ phase = "terminal"
    /\ budget = 2
    /\ generation = 1
    /\ Len(logbook) = 1

====
